---- MODULE Spec2Model ----
(***************************************************************************)
(* Review-processing pipeline and job state machine of opinator.           *)
(*                                                                         *)
(* Two orchestrators drive a job: the Inngest function                     *)
(* process_scraping_job (app/inngest/functions.py) and                     *)
(* ScrapingService.process_scraping_job (app/services/scraping_service.py).*)
(* Both write the job row through JobService.update_job_status and         *)
(* update_job_statistics, persist reviews to the reviews table and (the    *)
(* Inngest one) index them into the Qdrant reviews collection.             *)
(*                                                                         *)
(* Strings are modelled as sequences of tokens, so that Python string      *)
(* concatenation is \o.  An md5 digest is modelled as a record naming the  *)
(* digested string and the number of hex characters kept: md5 is taken to  *)
(* be collision free on the strings of the model.                          *)
(***************************************************************************)
EXTENDS Integers, Sequences, FiniteSets, TLC

(***************************************************************************)
(* Bounds of the model.                                                    *)
(***************************************************************************)
MaxJobs == 2
MaxRuns == 2
MaxFaults == 1
MaxRestarts == 1

Jobs == 1..MaxJobs
Runs == 1..MaxRuns
HashSeeds == 0..MaxRestarts

(***************************************************************************)
(* Values.                                                                 *)
(***************************************************************************)
NoRating == -1
None == "none"
Terminal == {"completed", "failed"}

\* The status names of the documented state machine, in its order.
StatusOrder ==
  <<"pending", "running", "analyzing_sentiment", "analyzing_keywords",
    "generating_summaries", "saving_results", "completed">>

RECURSIVE IndexOf(_, _, _)
IndexOf(seq, x, i) ==
  IF i > Len(seq) THEN 0
  ELSE IF seq[i] = x THEN i ELSE IndexOf(seq, x, i + 1)

StatusRank(s) == IndexOf(StatusOrder, s, 1)

(***************************************************************************)
(* What the review sites currently show.  A raw review is what a parser    *)
(* or the Places API formats: rating, text, author, platform.              *)
(***************************************************************************)
NoHash == [alg |-> "null", hex |-> 0, of |-> << >>]
NoId == [prefix |-> "", digest |-> NoHash]

\* `keys` holds the enrichment keys present in the review dict; a field whose
\* key is absent holds the value dict.get() returns for it.  A rating is
\* held in tenths of a star (45 is 4.5), None as NoRating.
RawReview(p, a, t, r) ==
  [platform |-> p, author |-> a, text |-> t, rating |-> r,
   keys |-> {}, sentiment |-> None, keywords |-> << >>, has_summary |-> FALSE,
   review_hash |-> NoHash, review_id |-> NoId]

SiteReviews(platform) ==
  CASE platform = "google" ->
         << RawReview("google", <<"ann">>, <<"good">>, 50),
            RawReview("google", <<"bob">>, <<"good">>, 40) >>
    [] platform = "tripadvisor" ->
         << RawReview("tripadvisor", <<"ann">>, <<"bad">>, NoRating) >>
    [] OTHER -> << >>

\* What the Places API returns for the place: the reviews of the page and a
\* rating-only review, which the API formats with an empty text.
ApiReviews ==
  SiteReviews("google") \o << RawReview("google", <<"cat">>, << >>, 30) >>

\* URLs are modelled by the set of marker substrings they contain.
JobInputs ==
  { [search_type |-> "keyword", search_query |-> {}, platforms |-> <<"google", "tripadvisor">>],
    [search_type |-> "keyword", search_query |-> {}, platforms |-> << >>],
    [search_type |-> "url", search_query |-> {"tripadvisor"}, platforms |-> <<"tripadvisor">>],
    [search_type |-> "url", search_query |-> {"example"}, platforms |-> <<"tripadvisor">>] }

NoInput == [search_type |-> None, search_query |-> {}, platforms |-> << >>]

VARIABLES
  entry,        \* the entry point the dispatcher invokes: "inngest" or "service"
  backend,      \* "supabase" or "postgres": which branch `db.pool` selects
  apiKey,       \* GOOGLE_PLACES_API_KEY is configured
  job,          \* scraping_jobs table: job id -> row
  input,        \* job id -> the event data of the job
  delivered,    \* job id -> number of deliveries of its job-created event
  run,          \* orchestrator runs: run id -> local state
  reviews,      \* reviews table: set of rows
  vectors,      \* Qdrant reviews collection: set of points
  knowledge,    \* Qdrant hotel_knowledge collection: set of points
  hashSeed,     \* PYTHONHASHSEED of the current process
  restarts,     \* number of process restarts so far
  faults,       \* number of injected collaborator failures so far
  call,         \* the last direct call of an analyzer function: op, arg, ret
  categories_cache, \* keyword_analyzer.categories_cache
  summarizer    \* review_summarizer.summarizer: the loaded model or None

vars == <<entry, backend, apiKey, job, input, delivered, run, reviews, vectors,
          knowledge, hashSeed, restarts, faults, call, categories_cache,
          summarizer>>

(***************************************************************************)
(* Content addressing.                                                     *)
(***************************************************************************)
\* A digest keyed by the process, as Python's built-in hash() is.
md5_keyed_by_process(s) ==
  [alg |-> "md5", hex |-> 32, of |-> s \o <<"seed", ToString(hashSeed)>>]

\* hashlib.md5(s.encode()).hexdigest(): 32 hex characters.
md5(s) == [alg |-> "md5", hex |-> 32, of |-> s]

\* digest[:16]: the first 16 hex characters.
Take16(h) == [h EXCEPT !.hex = IF @ > 16 THEN 16 ELSE @]

\* f"{platform}_{digest}"
FormatReviewId(platform, digest) == [prefix |-> platform, digest |-> digest]

\* str() of a rating inside an f-string.
RatingStr(r) == IF r = NoRating THEN <<"None">> ELSE <<ToString(r)>>

\* save_step: md5 of the text alone, cut to 16 hex characters.
InngestHash(review) == Take16(md5(review.text))

InngestReviewId(review) ==
  FormatReviewId(review.platform, InngestHash(review))

\* save_scraping_results, PostgreSQL branch: md5 of
\* "author-text-rating-platform", kept whole.
PostgresHash(review, platform) ==
  md5(review.author \o <<"-">> \o review.text \o <<"-">>
        \o RatingStr(review.rating) \o <<"-">> \o <<platform>>)

PostgresReviewId(review, platform) ==
  FormatReviewId(platform, Take16(PostgresHash(review, platform)))

\* save_scraping_results, Supabase branch: md5 of the text, 16 hex characters.
SupabaseHash(review) == Take16(md5(review.text))

SupabaseReviewId(review, platform) ==
  FormatReviewId(platform, SupabaseHash(review))

(***************************************************************************)
(* The three batch stages.  Each returns a new list of copies.             *)
(***************************************************************************)
\* The pretrained classifier, a fixed function of the text.
ModelLabel(text) ==
  CASE text = <<"good">> -> "positive"
    [] text = <<"bad">> -> "negative"
    [] OTHER -> "neutral"

\* Confidences and scores are in thousandths: 700 stands for 0.7.
Labels == {"positive", "neutral", "negative"}

\* The empty scores dictionary.
NoScores == [l \in {} |-> 0]

\* sentiment_confidence of a review that was not analyzed: Python's None.
NoConfidence == -1

\* The highest score the classifier gives to a text it labels.
ModelConfidence == 900

\* A text field holding null instead of a string.
NullText == <<"null">>

RECURSIVE LStrip(_)
LStrip(text) ==
  IF text # << >> /\ Head(text) = " " THEN LStrip(Tail(text)) ELSE text

RECURSIVE RStrip(_)
RStrip(text) ==
  IF text # << >> /\ text[Len(text)] = " "
  THEN RStrip(SubSeq(text, 1, Len(text) - 1)) ELSE text

\* str.strip(): leading and trailing whitespace removed.
Strip(text) == RStrip(LStrip(text))

\* analyze_sentiment: `available` is whether the model could be loaded,
\* `fails` whether running the classifier raises.
analyze_sentiment(text, available, fails) ==
  IF ~available
  THEN [sentiment |-> None, confidence |-> 0, scores |-> NoScores,
        error |-> "Model not available"]
  ELSE IF Strip(text) = << >>
  THEN [sentiment |-> None, confidence |-> 0, scores |-> NoScores,
        error |-> "Empty text"]
  ELSE IF fails
  THEN [sentiment |-> "neutral", confidence |-> 0, scores |-> NoScores,
        error |-> "classifier error"]
  ELSE [sentiment |-> ModelLabel(Strip(text)), confidence |-> ModelConfidence,
        scores |-> [l \in Labels |->
                      IF l = ModelLabel(Strip(text)) THEN ModelConfidence
                      ELSE (1000 - ModelConfidence) \div 2],
        error |-> None]

\* The scores distribution built around the chosen label.
RatingScores(sentiment, confidence) ==
  [l \in Labels |-> IF l = sentiment THEN confidence
                    ELSE (1000 - confidence) \div 2]

\* The negative branch with its bound moved below two stars.
analyze_sentiment_from_rating_below_two(rating) ==
  IF rating = NoRating
  THEN [sentiment |-> None, confidence |-> 0, scores |-> NoScores,
        analysis_method |-> "none", error |-> "No rating available"]
  ELSE IF rating < 20
  THEN [sentiment |-> "negative", confidence |-> 800 + (20 - rating) * 10,
        scores |-> RatingScores("negative", 800 + (20 - rating) * 10),
        analysis_method |-> "rating", error |-> None]
  ELSE IF rating = 30
  THEN [sentiment |-> "neutral", confidence |-> 700,
        scores |-> RatingScores("neutral", 700),
        analysis_method |-> "rating", error |-> None]
  ELSE [sentiment |-> "positive", confidence |-> 700 + (rating - 40) * 20,
        scores |-> RatingScores("positive", 700 + (rating - 40) * 20),
        analysis_method |-> "rating", error |-> None]

\* analyze_sentiment_from_rating: the rating is in tenths of a star.
analyze_sentiment_from_rating(rating) ==
  IF rating = NoRating
  THEN [sentiment |-> None, confidence |-> 0, scores |-> NoScores,
        analysis_method |-> "none", error |-> "No rating available"]
  ELSE IF rating <= 20
  THEN [sentiment |-> "negative", confidence |-> 800 + (20 - rating) * 10,
        scores |-> RatingScores("negative", 800 + (20 - rating) * 10),
        analysis_method |-> "rating", error |-> None]
  ELSE IF rating = 30
  THEN [sentiment |-> "neutral", confidence |-> 700,
        scores |-> RatingScores("neutral", 700),
        analysis_method |-> "rating", error |-> None]
  ELSE [sentiment |-> "positive", confidence |-> 700 + (rating - 40) * 20,
        scores |-> RatingScores("positive", 700 + (rating - 40) * 20),
        analysis_method |-> "rating", error |-> None]

\* One iteration of the loop of analyze_reviews_batch: the fields the loop
\* adds to the copy of the review.
analyze_review(review, available, fails) ==
  IF Strip(review.text) # << >>
  THEN LET res == analyze_sentiment(Strip(review.text), available, fails)
       IN [review |-> review, sentiment |-> res.sentiment,
           sentiment_confidence |-> res.confidence,
           sentiment_scores |-> res.scores, sentiment_error |-> res.error,
           sentiment_method |-> "text"]
  ELSE IF review.rating # NoRating
  THEN LET res == analyze_sentiment_from_rating(review.rating)
       IN [review |-> review, sentiment |-> res.sentiment,
           sentiment_confidence |-> res.confidence,
           sentiment_scores |-> res.scores, sentiment_error |-> res.error,
           sentiment_method |-> "rating"]
  ELSE [review |-> review, sentiment |-> None,
        sentiment_confidence |-> NoConfidence,
        sentiment_scores |-> NoScores,
        sentiment_error |-> "No text or rating to analyze",
        sentiment_method |-> "none"]

\* analyze_reviews_batch: `failing` are the positions whose classification
\* raises inside analyze_sentiment.  None has no strip(), so a null text
\* raises out of the loop, which has no handler.
analyze_reviews_batch(batch, available, failing) ==
  IF \E i \in 1..Len(batch) : batch[i].text = NullText
  THEN [raised |-> TRUE, out |-> << >>]
  ELSE [raised |-> FALSE,
        out |-> [i \in 1..Len(batch) |->
                   analyze_review(batch[i], available, i \in failing)]]

\* round(count / total * 100, 1), in tenths of a percent.
Percentage(count, total) ==
  IF total > 0 THEN (count * 2000 + total) \div (2 * total) ELSE 0

get_sentiment_summary(analyzed) ==
  LET count(label) ==
        Cardinality({i \in 1..Len(analyzed) : analyzed[i].sentiment = label})
      analyzed_total ==
        Cardinality({i \in 1..Len(analyzed) : analyzed[i].sentiment # None})
  IN [total_reviews |-> Len(analyzed),
      analyzed_reviews |-> analyzed_total,
      positive |-> count("positive"),
      negative |-> count("negative"),
      neutral |-> count("neutral"),
      no_text |-> count(None),
      positive_percentage |-> Percentage(count("positive"), analyzed_total),
      negative_percentage |-> Percentage(count("negative"), analyzed_total),
      neutral_percentage |-> Percentage(count("neutral"), analyzed_total)]

SentimentOf(review) == analyze_review(review, TRUE, FALSE).sentiment

\* The dicts a batch stage works on live in a heap, the sequence of the
\* dicts allocated so far; a list holds references, the positions of its
\* dicts in the heap.
\* A copy that hands back the dict it was given.
copy_returns_self(heap, ref) == [heap |-> heap, ref |-> ref]

\* dict.copy(): a new dict with the items of the old one.
copy(heap, ref) == [heap |-> Append(heap, heap[ref]), ref |-> Len(heap) + 1]

\* dict.update(fields): the keys of `fields` are set in the target, the
\* others are left as they are.
update(target, fields) ==
  [k \in DOMAIN target |->
     IF k = "keys" THEN target.keys \cup DOMAIN fields
     ELSE IF k \in DOMAIN fields THEN fields[k] ELSE target[k]]

\* The loop of a batch stage: each review of the input list is copied, the
\* copy is updated with the fields the stage computed for it and appended
\* to the result list.
RECURSIVE enhance_loop(_, _, _, _, _)
enhance_loop(heap, reviews_, fields, i, enhanced) ==
  IF i > Len(reviews_) THEN [heap |-> heap, enhanced |-> enhanced]
  ELSE LET c == copy(heap, reviews_[i]) IN
       enhance_loop([c.heap EXCEPT ![c.ref] = update(@, fields[i])],
                    reviews_, fields, i + 1, Append(enhanced, c.ref))

\* A batch stage run on a fresh list of dicts: what the input list holds
\* when the stage has returned, and the list it returned.
run_stage(batch, fields) ==
  LET refs == [i \in 1..Len(batch) |-> i]
      res == enhance_loop(batch, refs, fields, 1, << >>)
  IN [input |-> [i \in 1..Len(batch) |-> res.heap[refs[i]]],
      output |-> [i \in 1..Len(batch) |-> res.heap[res.enhanced[i]]]]

sentiment_stage(batch) ==
  run_stage(batch, [i \in 1..Len(batch) |->
                      [sentiment |-> SentimentOf(batch[i])]])

sentiment_batch(batch) == sentiment_stage(batch).output

\* The cached category dictionary, reduced to its keyword list.
DictionaryKeywords == {"bad"}

IsDictionaryKeyword(tok) == tok \in DictionaryKeywords

keyword_stage(batch) ==
  run_stage(batch, [i \in 1..Len(batch) |->
                      [keywords |-> SelectSeq(batch[i].text, IsDictionaryKeyword)]])

keyword_batch(batch) == keyword_stage(batch).output

\* len(text.strip()) > min_review_length: only the token "long" stands for
\* a text of more than 150 characters.
should_summarize(text) == \E i \in 1..Len(text) : text[i] = "long"

summarize_stage(batch) ==
  run_stage(batch, [i \in 1..Len(batch) |->
                      [has_summary |-> should_summarize(batch[i].text)]])

summarize_batch(batch) == summarize_stage(batch).output

(***************************************************************************)
(* The keyword analyzer.  Here a string is the sequence of its characters, *)
(* each character a one-letter string; an accented letter is written out   *)
(* ("a_grave").                                                            *)
(***************************************************************************)
UpperCase ==
  <<"A", "B", "C", "D", "E", "F", "G", "H", "I", "J", "K", "L", "M",
    "N", "O", "P", "Q", "R", "S", "T", "U", "V", "W", "X", "Y", "Z">>

LowerCase ==
  <<"a", "b", "c", "d", "e", "f", "g", "h", "i", "j", "k", "l", "m",
    "n", "o", "p", "q", "r", "s", "t", "u", "v", "w", "x", "y", "z">>

\* The lowercase letter of every uppercase letter.
LowerOf ==
  [c \in {UpperCase[i] : i \in 1..Len(UpperCase)} |->
     LowerCase[CHOOSE i \in 1..Len(UpperCase) : UpperCase[i] = c]]

LowerChar(c) == IF c \in DOMAIN LowerOf THEN LowerOf[c] ELSE c

\* str.lower()
Lower(s) == [i \in 1..Len(s) |-> LowerChar(s[i])]

\* `word in s` on strings: word occurs in s as a substring.
Occurs(word, s) ==
  \E i \in 0..(Len(s) - Len(word)) :
    \A k \in 1..Len(word) : s[i + k] = word[k]

\* " ".join(words)
RECURSIVE Join(_)
Join(words) ==
  IF words = << >> THEN << >>
  ELSE IF Len(words) = 1 THEN words[1]
  ELSE words[1] \o <<" ">> \o Join(Tail(words))

spanish_words ==
  <<<<"e", "l">>, <<"l", "a">>, <<"d", "e">>, <<"q", "u", "e">>,
    <<"y">>, <<"e", "s">>, <<"e", "n">>, <<"u", "n">>,
    <<"u", "n", "a">>, <<"c", "o", "n">>, <<"m", "u", "y">>, <<"b", "i", "e", "n">>,
    <<"e", "s", "t", "a_acute">>, <<"c", "a", "m", "p", "i", "n", "g">>>>

french_words ==
  <<<<"l", "e">>, <<"d", "e">>, <<"e", "t">>, <<"a_grave">>,
    <<"u", "n">>, <<"u", "n", "e">>, <<"d", "a", "n", "s">>, <<"p", "o", "u", "r">>,
    <<"a", "v", "e", "c">>, <<"t", "r", "e_grave", "s">>, <<"b", "i", "e", "n">>, <<"e", "s", "t">>,
    <<"c", "a", "m", "p", "i", "n", "g">>>>

english_words ==
  <<<<"t", "h", "e">>, <<"a", "n", "d">>, <<"o", "f">>, <<"t", "o">>,
    <<"a">>, <<"i", "n">>, <<"i", "s">>, <<"i", "t">>,
    <<"y", "o", "u">>, <<"t", "h", "a", "t">>, <<"h", "e">>, <<"w", "a", "s">>,
    <<"f", "o", "r">>, <<"c", "a", "m", "p", "i", "n", "g">>>>

\* sum(1 for word in words if word in text_lower)
CountWords(words, s) ==
  Cardinality({i \in 1..Len(words) : Occurs(words[i], s)})

\* The value of an expression that is computed once and then used several
\* times: the only element of the set.
TheOne(set) == CHOOSE x \in set : TRUE

\* counts = {'es': spanish_count, 'fr': french_count, 'en': english_count}
LanguageCounts(text_lower) ==
  [es |-> CountWords(spanish_words, text_lower),
   fr |-> CountWords(french_words, text_lower),
   en |-> CountWords(english_words, text_lower)]

\* The order of the keys of `counts`.
CountsOrder == <<"es", "fr", "en">>

\* max(counts, key=counts.get): the first key, in the order of the keys,
\* that has the highest count.
MaxKey(counts) ==
  CountsOrder[CHOOSE i \in 1..Len(CountsOrder) :
                /\ \A k \in 1..Len(CountsOrder) :
                     counts[CountsOrder[k]] <= counts[CountsOrder[i]]
                /\ \A k \in 1..(i - 1) :
                     counts[CountsOrder[k]] < counts[CountsOrder[i]]]

\* A detection that returns the highest key even when its count is zero.
detect_language_without_default(text) ==
  IF text = << >> THEN "en"
  ELSE TheOne({MaxKey(counts) :
                 counts \in {LanguageCounts(text_lower) :
                               text_lower \in {Lower(text)}}})

\* KeywordAnalyzer._detect_language
detect_language(text) ==
  IF text = << >> THEN "en"
  ELSE TheOne({IF counts[MaxKey(counts)] > 0 THEN MaxKey(counts) ELSE "en" :
                 counts \in {LanguageCounts(text_lower) :
                               text_lower \in {Lower(text)}}})

\* The rows of keyword_categories and category_keywords, as
\* load_categories_from_db organizes them: the categories in the order of
\* their keys, each with its keywords per language.  Weights are in
\* hundredths.
Dictionary ==
  << [category_key |-> "bar",
      keywords |-> [en |-> <<[keyword |-> <<"b", "a", "r">>, weight |-> 60]>>,
                    es |-> <<[keyword |-> <<"b", "a", "r">>, weight |-> 60]>>,
                    fr |-> << >>]],
     [category_key |-> "pool",
      keywords |-> [en |-> <<[keyword |-> <<"p", "o", "o", "l">>, weight |-> 80],
                             [keyword |-> <<"p", "o", "o", "l", " ", "b", "a", "r">>, weight |-> 90]>>,
                    es |-> <<[keyword |-> <<"p", "i", "s", "c", "i", "n", "a">>, weight |-> 80]>>,
                    fr |-> << >>]],
     [category_key |-> "wifi",
      keywords |-> [en |-> <<[keyword |-> <<"w", "i", "f", "i">>, weight |-> 70]>>,
                    es |-> <<[keyword |-> <<"w", "i", "f", "i">>, weight |-> 70]>>,
                    fr |-> <<[keyword |-> <<"W", "i", "F", "i">>, weight |-> 70]>>]] >>

\* The empty categories_cache.
NoCategories == << >>

\* What the category collaborator answers to a load.
DbOutcomes == {"rows", "empty", "error"}

\* load_categories_from_db: the cache after the load.  An exception is
\* caught and leaves the cache as it was.
load_categories_from_db(cache, db) ==
  CASE db = "rows" -> Dictionary
    [] db = "empty" -> NoCategories
    [] OTHER -> cache

\* The second _extract_keywords_from_text (it replaces the first): the
\* dictionary keywords of the language that occur in the text, in their
\* original case, as a set.
extract_keywords_from_text(cache, text, language) ==
  LET text_lower == Lower(text) IN
  {kw \in UNION {{cache[c].keywords[language][n].keyword :
                    n \in 1..Len(cache[c].keywords[language])} :
                 c \in 1..Len(cache)} :
     LET keyword == Lower(kw) IN Occurs(keyword, text_lower)}

\* The lists a set of keywords can come out as: list(set(...)) keeps no
\* order.
Orders(set) ==
  {order \in [1..Cardinality(set) -> set] :
     \A i, k \in 1..Cardinality(set) : order[i] = order[k] => i = k}

\* The inner loop of categorize_keywords: the keywords of the category that
\* occur in all_text, lowercased, in dictionary order.
RECURSIVE found_keywords(_, _)
found_keywords(category_keywords, all_text) ==
  IF category_keywords = << >> THEN << >>
  ELSE LET keyword == Lower(Head(category_keywords).keyword)
           rest == found_keywords(Tail(category_keywords), all_text)
       IN IF Occurs(keyword, all_text)
          THEN <<[keyword |-> keyword,
                  weight |-> Head(category_keywords).weight]>> \o rest
          ELSE rest

RECURSIVE SumWeights(_)
SumWeights(found) ==
  IF found = << >> THEN 0 ELSE Head(found).weight + SumWeights(Tail(found))

\* min(total_weight / len(found_keywords), 1.0) as a fraction: hundredths
\* over the number of keywords.
Confidence(total_weight, n) ==
  [num |-> IF total_weight <= 100 * n THEN total_weight ELSE 100 * n,
   den |-> n]

\* sorted(..., key=total_weight, reverse=True): stable, equal weights keep
\* their order.
RECURSIVE InsertByWeight(_, _)
InsertByWeight(sorted, x) ==
  IF sorted = << >> THEN <<x>>
  ELSE IF Head(sorted).total_weight >= x.total_weight
  THEN <<Head(sorted)>> \o InsertByWeight(Tail(sorted), x)
  ELSE <<x>> \o sorted

RECURSIVE SortByWeight(_, _)
SortByWeight(found, n) ==
  IF n = 0 THEN << >>
  ELSE TheOne({InsertByWeight(sorted, found[n]) :
                 sorted \in {SortByWeight(found, n - 1)}})

RECURSIVE categories_found(_, _, _)
categories_found(cache, language, all_text) ==
  IF cache = << >> THEN << >>
  ELSE LET found == found_keywords(Head(cache).keywords[language], all_text)
           rest == categories_found(Tail(cache), language, all_text)
       IN IF found # << >>
          THEN <<[category_key |-> Head(cache).category_key,
                  keywords_found |-> found,
                  total_weight |-> SumWeights(found),
                  confidence |-> Confidence(SumWeights(found), Len(found))]>>
               \o rest
          ELSE rest

\* categorize_keywords on a loaded cache.  The result is the dictionary it
\* returns, as the sequence of its items.
categorize_keywords(cache, keywords, text, language) ==
  LET lang == IF language = "auto"
              THEN detect_language(text \o <<" ">> \o Join(keywords))
              ELSE IF language \in {"es", "en", "fr"} THEN language ELSE "en"
  IN TheOne({SortByWeight(found, Len(found)) :
               found \in {categories_found(cache, lang, all_text) :
                            all_text \in {Lower(text \o <<" ">> \o Join(keywords))}}})

NoAnalysis ==
  [keywords |-> << >>, categories |-> << >>, language |-> "en",
   keyword_count |-> 0]

\* analyze_review_keywords, on the stripped text.  `keywords` is the list _extract_keywords_from_text
\* returned on the cache as it was; categorize_keywords then loads the
\* dictionary if the cache is empty.  The result carries the cache the call
\* leaves and the number of loads it made.
analyze_stripped(cache, review_text, db, keywords) ==
  IF review_text = << >>
  THEN [cache |-> cache, queries |-> 0, out |-> NoAnalysis]
  ELSE LET language == detect_language(review_text)
           loaded == IF cache = NoCategories
                     THEN load_categories_from_db(cache, db) ELSE cache
           categories == IF loaded = NoCategories THEN << >>
                         ELSE categorize_keywords(loaded, keywords, review_text,
                                                  language)
       IN [cache |-> loaded,
           queries |-> IF cache = NoCategories THEN 1 ELSE 0,
           out |-> [keywords |-> keywords, categories |-> categories,
                    language |-> language, keyword_count |-> Len(keywords)]]

analyze_review_keywords(cache, text, db, keywords) ==
  TheOne({analyze_stripped(cache, review_text, db, keywords) :
            review_text \in {Strip(text)}})

\* The lists _extract_keywords_from_text can return for the text.
ExtractedOrders(cache, text) ==
  UNION {Orders(extract_keywords_from_text(cache, review_text,
                                           detect_language(review_text))) :
           review_text \in {Strip(text)}}

\* analyze_reviews_batch of the keyword analyzer, first statement: the
\* dictionary is loaded if the cache is empty.
BatchCache(cache, db) ==
  IF cache = NoCategories THEN load_categories_from_db(cache, db) ELSE cache

\* One list of extracted keywords for every review of the batch.
RECURSIVE BatchOrders(_, _)
BatchOrders(cache, batch) ==
  IF batch = << >> THEN {<< >>}
  ELSE {<<order>> \o rest :
          order \in ExtractedOrders(cache, Head(batch).text),
          rest \in BatchOrders(cache, Tail(batch))}

\* The loop of analyze_reviews_batch: the copy of every review with the
\* four keyword fields, the cache and the number of loads so far.
RECURSIVE keyword_batch_loop(_, _, _, _, _)
keyword_batch_loop(cache, batch, db, orders, queries) ==
  IF batch = << >> THEN [cache |-> cache, queries |-> queries, out |-> << >>]
  ELSE LET res == analyze_review_keywords(cache, Head(batch).text, db, Head(orders))
           rest == keyword_batch_loop(res.cache, Tail(batch), db, Tail(orders),
                                      queries + res.queries)
       IN [rest EXCEPT !.out =
             <<[review |-> Head(batch),
                keywords |-> res.out.keywords,
                keyword_categories |-> res.out.categories,
                detected_language |-> res.out.language,
                keyword_count |-> res.out.keyword_count]>> \o @]

keyword_analyze_reviews_batch(cache, batch, db, orders) ==
  keyword_batch_loop(BatchCache(cache, db), batch, db, orders,
                     IF cache = NoCategories THEN 1 ELSE 0)

(***************************************************************************)
(* The review summarizer.  Only the length of a text and its surrounding   *)
(* whitespace matter to it: a text is the number of its leading whitespace *)
(* characters, of the characters from its first to its last non-blank one, *)
(* and of its trailing whitespace characters.                              *)
(***************************************************************************)
min_review_length == 150

min_length == 30

SummaryText(lead, core, trail) == [lead |-> lead, core |-> core, trail |-> trail]

\* len(text)
TextLen(text) == text.lead + text.core + text.trail

\* text.strip()
StripText(text) == SummaryText(0, text.core, 0)

\* A length test on the text as it is, surrounding whitespace included.
long_enough_unstripped(text) == TextLen(text) > min_review_length

\* ReviewSummarizer.should_summarize
long_enough(text) == TextLen(StripText(text)) > min_review_length

\* What the model does when it is invoked: it returns a summary, returns an
\* empty result, or raises.
ModelOutcomes == {"summary", "empty", "raises"}

\* ReviewSummarizer.summarize_review: the model is loaded on first use;
\* `load_ok` is whether a load succeeds.  `summary` is whether a summary is
\* returned, `loaded` and `invoked` whether the call loaded and invoked the
\* model.
summarize_review(model, text, load_ok, outcome) ==
  LET loading == model = None
      loaded == IF loading /\ load_ok THEN "loaded" ELSE model
  IN IF loaded = None
     THEN [summarizer |-> loaded, loaded |-> loading, invoked |-> FALSE,
           summary |-> FALSE]
     ELSE IF ~long_enough(text) \/ TextLen(StripText(text)) < min_length
     THEN [summarizer |-> loaded, loaded |-> loading, invoked |-> FALSE,
           summary |-> FALSE]
     ELSE [summarizer |-> loaded, loaded |-> loading, invoked |-> TRUE,
           summary |-> outcome = "summary"]

\* The loop of summarize_reviews_batch from review i on: the copy of each
\* review with summary and has_summary, and for each review whether the
\* model was loaded and invoked for it.
RECURSIVE summarize_loop(_, _, _, _, _)
summarize_loop(model, batch, load_ok, outcomes, i) ==
  IF i > Len(batch) THEN [summarizer |-> model, out |-> << >>, effects |-> << >>]
  ELSE IF long_enough(batch[i].text)
  THEN LET res == summarize_review(model, batch[i].text, load_ok, outcomes[i])
           rest == summarize_loop(res.summarizer, batch, load_ok, outcomes, i + 1)
       IN [rest EXCEPT
             !.out = <<[review |-> batch[i], summary |-> res.summary,
                        has_summary |-> res.summary]>> \o @,
             !.effects = <<[loaded |-> res.loaded, invoked |-> res.invoked]>> \o @]
  ELSE LET rest == summarize_loop(model, batch, load_ok, outcomes, i + 1)
       IN [rest EXCEPT
             !.out = <<[review |-> batch[i], summary |-> FALSE,
                        has_summary |-> FALSE]>> \o @,
             !.effects = <<[loaded |-> FALSE, invoked |-> FALSE]>> \o @]

summarize_reviews_batch(model, batch, load_ok, outcomes) ==
  summarize_loop(model, batch, load_ok, outcomes, 1)

(***************************************************************************)
(* JobService.                                                             *)
(***************************************************************************)
NoJob ==
  [status |-> None, message |-> None, stats_written |-> FALSE,
   review_count |-> 0, positive_count |-> 0, negative_count |-> 0,
   neutral_count |-> 0, total_keywords |-> 0]

\* An UPDATE of scraping_jobs without its WHERE clause.
update_every_job_status(jobs, job_id, status, message) ==
  [j \in DOMAIN jobs |->
     [jobs[j] EXCEPT !.status = status,
                     !.message = IF message # None THEN message ELSE @]]

\* UPDATE scraping_jobs SET status = ..., message = ... WHERE id = job_id
update_job_status(jobs, job_id, status, message) ==
  [jobs EXCEPT ![job_id].status = status,
               ![job_id].message = IF message # None THEN message ELSE @]

CountSentiment(batch, label) ==
  Cardinality({i \in 1..Len(batch) :
     (IF "sentiment" \in batch[i].keys THEN batch[i].sentiment ELSE "neutral") = label})

RECURSIVE SumKeywords(_, _)
SumKeywords(batch, i) ==
  IF i > Len(batch) THEN 0 ELSE Len(batch[i].keywords) + SumKeywords(batch, i + 1)

\* sum(r.get('rating', 0) ...) raises TypeError on a rating of None; the
\* handler catches it and leaves the row as it was.
update_job_statistics(jobs, job_id, batch) ==
  IF \E i \in 1..Len(batch) : batch[i].rating = NoRating
  THEN jobs
  ELSE [jobs EXCEPT ![job_id].stats_written = TRUE,
                    ![job_id].review_count = Len(batch),
                    ![job_id].positive_count = CountSentiment(batch, "positive"),
                    ![job_id].negative_count = CountSentiment(batch, "negative"),
                    ![job_id].neutral_count = CountSentiment(batch, "neutral"),
                    ![job_id].total_keywords = SumKeywords(batch, 1)]

(***************************************************************************)
(* Review storage and the vector index.                                    *)
(***************************************************************************)
\* The primary key the table gives a new row.  The serial number is
\* modelled by the inserting run and its position in that run's inserts,
\* which is as unique and does not depend on the order of other inserts.
RowId(r, k, n) == <<r, k, n>>

\* SELECT id FROM reviews WHERE review_hash = h
ExistsByHash(rows, h) == \E row \in rows : row.review_hash = h

\* SupabaseDatabase.save_review: the record it inserts has no review_hash
\* column; the hash only travels inside raw_data.
save_review(rows, id, job_id, platform, review) ==
  rows \cup {[id |-> id, job_id |-> job_id, platform |-> platform,
               review_id |-> review.review_id, review_hash |-> NoHash,
               raw_data |-> review]}

\* INSERT of save_scraping_results (both branches): writes review_hash.
InsertReview(rows, id, job_id, platform, review, h, review_id) ==
  rows \cup {[id |-> id, job_id |-> job_id, platform |-> platform,
               review_id |-> review_id, review_hash |-> h,
               raw_data |-> review]}

\* abs(hash(review_id)) % 10**10: Python's str hash is keyed by the
\* per-process PYTHONHASHSEED; within a process it is a function of the
\* string.  Modelled collision free.
PointId(seed, business_id) == [seed |-> seed, of |-> business_id]

\* client.upsert: a point with the same id is overwritten.
Upsert(collection, point) ==
  {q \in collection : q.id # point.id} \cup {point}

\* `enriched` stands for the enrichment fields of the payload: the keys of
\* the review that were set when the metadata was built.
add_review(collection, seed, review_id, job_id, enriched) ==
  Upsert(collection, [id |-> PointId(seed, review_id),
                      review_id |-> review_id, job_id |-> job_id,
                      enriched |-> enriched])

add_knowledge(collection, seed, doc_id) ==
  Upsert(collection, [id |-> PointId(seed, doc_id), doc_id |-> doc_id])


(***************************************************************************)
(* Orchestrator runs.                                                      *)
(***************************************************************************)
IdleRun ==
  [job_id |-> 0, kind |-> None, pc |-> "idle", platforms |-> << >>,
   p |-> 1, attempts |-> << >>, results |-> << >>, k |-> 1,
   batch |-> << >>, i |-> 1, inserted |-> FALSE,
   saved_count |-> 0, skipped_count |-> 0, log |-> << >>,
   writes |-> << >>]

\* The entry point is over: it returned ("done", then "returned" once its
\* locals are gone) or an exception left it ("raised").
Finished == {"done", "returned", "raised"}

\* What is left of a run when its locals are gone.
Over(rec, pc) ==
  [IdleRun EXCEPT !.job_id = rec.job_id, !.kind = rec.kind, !.pc = pc,
                  !.writes = rec.writes]

\* ScrapingService.detect_platform_from_url
detect_platform_from_url(url) ==
  IF "tripadvisor" \in url THEN "tripadvisor"
  ELSE IF "google.com" \in url /\ "reviews" \in url THEN "google"
  ELSE IF "booking.com" \in url THEN "booking"
  ELSE "unknown"

\* get_google_reviews_via_api: the formatted reviews leave it already run
\* through the three batch stages.
get_google_reviews_via_api ==
  summarize_batch(keyword_batch(sentiment_batch(ApiReviews)))

\* scrape_by_keyword / scrape_url: the parsed reviews of the platform's page.
scrape_url(platform) == SiteReviews(platform)

\* Rows an earlier deployment persisted through the Supabase branch of
\* save_scraping_results: they carry the review_hash column.
LegacyRows ==
  LET revs == summarize_batch(keyword_batch(sentiment_batch(scrape_url("tripadvisor"))))
  IN {[id |-> RowId(0, 1, n), job_id |-> 0, platform |-> "tripadvisor",
       review_id |-> SupabaseReviewId(revs[n], "tripadvisor"),
       review_hash |-> SupabaseHash(revs[n]),
       raw_data |-> revs[n]] : n \in 1..Len(revs)}

NoCall ==
  [op |-> None, arg |-> << >>, available |-> TRUE, failing |-> {}, ret |-> << >>,
   effects |-> << >>]

Init ==
  /\ call = NoCall
  /\ categories_cache = Dictionary
  /\ summarizer = None
  /\ entry \in {"inngest", "service"}
  /\ backend \in {"supabase", "postgres"}
  /\ apiKey \in BOOLEAN
  /\ job = [j \in Jobs |-> NoJob]
  /\ input = [j \in Jobs |-> NoInput]
  /\ delivered = [j \in Jobs |-> 0]
  /\ run = [r \in Runs |-> IdleRun]
  /\ hashSeed = 0
  /\ restarts = 0
  /\ faults = 0
  /\ reviews \in (IF entry = "inngest" /\ backend = "supabase"
                  THEN {{}, LegacyRows} ELSE {{}})
  /\ vectors = {}
  /\ knowledge = {}

\* routes.start_scraping: create the job row (status pending) and send the
\* scraping/job.created event.
start_scraping(j, inp) ==
  /\ job[j].status = None
  /\ \A h \in Jobs : h < j => delivered[h] > 0
  /\ job' = [job EXCEPT ![j].status = "pending"]
  /\ input' = [input EXCEPT ![j] = inp]
  /\ UNCHANGED <<call, categories_cache, summarizer, entry, backend, apiKey, delivered, run, reviews, vectors, knowledge,
                 hashSeed, restarts, faults>>

\* The dispatcher delivers the job-created event (at least once) to an
\* orchestrator entry point.
Deliver(j, r) ==
  /\ job[j].status # None
  /\ run[r].pc = "idle"
  /\ \A q \in Runs : q < r => run[q].pc # "idle"
  /\ delivered' = [delivered EXCEPT ![j] = @ + 1]
  /\ run' = [run EXCEPT ![r] = [IdleRun EXCEPT !.job_id = j, !.kind = entry,
                                               !.pc = "begin",
                                               !.platforms = input[j].platforms]]
  /\ UNCHANGED <<call, categories_cache, summarizer, entry, backend, apiKey, job, input, reviews, vectors, knowledge,
                 hashSeed, restarts, faults>>

\* A status write of run r through job_service.update_job_status.
WriteStatus(r, status, message) ==
  job' = update_job_status(job, run[r].job_id, status, message)

Wrote(rec, status) == [rec EXCEPT !.writes = Append(@, status)]

(***************************************************************************)
(* Inngest process_scraping_job.                                           *)
(***************************************************************************)
\* scrape_step, first statement.
scrape_step_begin(r) ==
  /\ run[r].kind = "inngest" /\ run[r].pc = "begin"
  /\ WriteStatus(r, "running", None)
  /\ run' = [run EXCEPT ![r] = Wrote([@ EXCEPT !.pc = "scrape"], "running")]
  /\ UNCHANGED <<call, categories_cache, summarizer, entry, backend, apiKey, input, delivered, reviews, vectors, knowledge,
                 hashSeed, restarts, faults>>

Attempt(platform, outcome) == [platform |-> platform, outcome |-> outcome]

\* A platform loop that a failing platform ends.
scrape_step_platform_aborts(r, ok) ==
  LET rec == run[r]
      platform == rec.platforms[rec.p]
      inp == input[rec.job_id]
      next == [rec EXCEPT !.p = @ + 1]
  IN
  /\ rec.kind = "inngest" /\ rec.pc = "scrape" /\ rec.p <= Len(rec.platforms)
  /\ IF inp.search_type = "keyword"
     THEN IF platform = "google" /\ ~apiKey
          THEN /\ ok
               /\ run' = [run EXCEPT ![r] =
                    [next EXCEPT !.attempts = Append(@, Attempt(platform, "skipped"))]]
               /\ UNCHANGED faults
          ELSE IF ok
          THEN /\ run' = [run EXCEPT ![r] =
                    [next EXCEPT !.attempts = Append(@, Attempt(platform, "ok")),
                                 !.batch = @ \o (IF platform = "google"
                                                 THEN get_google_reviews_via_api
                                                 ELSE scrape_url(platform))]]
               /\ UNCHANGED faults
          ELSE /\ faults < MaxFaults
               /\ faults' = faults + 1
               /\ run' = [run EXCEPT ![r] =
                    [rec EXCEPT !.p = Len(rec.platforms) + 1,
                                !.attempts = Append(@, Attempt(platform, "error"))]]
     ELSE /\ ok
          /\ run' = [run EXCEPT ![r] = Over(rec, "raised")]
          /\ UNCHANGED faults
  /\ UNCHANGED <<call, categories_cache, summarizer, entry, backend, apiKey, job, input, delivered, reviews, vectors,
                 knowledge, hashSeed, restarts>>

\* One iteration of the platform loop of scrape_step.
scrape_step_platform(r, ok) ==
  LET rec == run[r]
      platform == rec.platforms[rec.p]
      inp == input[rec.job_id]
      next == [rec EXCEPT !.p = @ + 1]
  IN
  /\ rec.kind = "inngest" /\ rec.pc = "scrape" /\ rec.p <= Len(rec.platforms)
  /\ IF inp.search_type = "keyword"
     THEN IF platform = "google" /\ ~apiKey
          THEN /\ ok
               /\ run' = [run EXCEPT ![r] =
                    [next EXCEPT !.attempts = Append(@, Attempt(platform, "skipped"))]]
               /\ UNCHANGED faults
          ELSE IF ok
          THEN /\ run' = [run EXCEPT ![r] =
                    [next EXCEPT !.attempts = Append(@, Attempt(platform, "ok")),
                                 !.batch = @ \o (IF platform = "google"
                                                 THEN get_google_reviews_via_api
                                                 ELSE scrape_url(platform))]]
               /\ UNCHANGED faults
          ELSE /\ faults < MaxFaults
               /\ faults' = faults + 1
               /\ run' = [run EXCEPT ![r] =
                    [next EXCEPT !.attempts = Append(@, Attempt(platform, "error"))]]
     ELSE \* scraping_service.scrape_by_url does not exist: AttributeError
          /\ ok
          /\ run' = [run EXCEPT ![r] = Over(rec, "raised")]
          /\ UNCHANGED faults
  /\ UNCHANGED <<call, categories_cache, summarizer, entry, backend, apiKey, job, input, delivered, reviews, vectors,
                 knowledge, hashSeed, restarts>>

\* scrape_step returns all_reviews.
scrape_step_return(r) ==
  /\ run[r].kind = "inngest" /\ run[r].pc = "scrape"
  /\ run[r].p > Len(run[r].platforms)
  /\ run' = [run EXCEPT ![r].pc = "sentiment"]
  /\ UNCHANGED <<call, categories_cache, summarizer, entry, backend, apiKey, job, input, delivered, reviews, vectors,
                 knowledge, hashSeed, restarts, faults>>

\* A sentiment step that hands its batch straight to the save stage.
sentiment_step_to_save(r) ==
  /\ run[r].kind = "inngest" /\ run[r].pc = "sentiment"
  /\ run' = [run EXCEPT ![r].batch = sentiment_batch(@), ![r].pc = "save"]
  /\ UNCHANGED <<call, categories_cache, summarizer, entry, backend, apiKey, job, input, delivered, reviews, vectors,
                 knowledge, hashSeed, restarts, faults>>

sentiment_step(r) ==
  /\ run[r].kind = "inngest" /\ run[r].pc = "sentiment"
  /\ run' = [run EXCEPT ![r].batch = sentiment_batch(@), ![r].pc = "keywords"]
  /\ UNCHANGED <<call, categories_cache, summarizer, entry, backend, apiKey, job, input, delivered, reviews, vectors,
                 knowledge, hashSeed, restarts, faults>>

keyword_step(r) ==
  /\ run[r].kind = "inngest" /\ run[r].pc = "keywords"
  /\ run' = [run EXCEPT ![r].batch = keyword_batch(@), ![r].pc = "summaries"]
  /\ UNCHANGED <<call, categories_cache, summarizer, entry, backend, apiKey, job, input, delivered, reviews, vectors,
                 knowledge, hashSeed, restarts, faults>>

summary_step(r) ==
  /\ run[r].kind = "inngest" /\ run[r].pc = "summaries"
  /\ run' = [run EXCEPT ![r].batch = summarize_batch(@), ![r].pc = "save"]
  /\ UNCHANGED <<call, categories_cache, summarizer, entry, backend, apiKey, job, input, delivered, reviews, vectors,
                 knowledge, hashSeed, restarts, faults>>


\* save_step, first loop: every review gets its hash and its id.
assign_hashes(batch) ==
  [n \in 1..Len(batch) |->
     [batch[n] EXCEPT !.review_hash = InngestHash(batch[n]),
                      !.review_id = InngestReviewId(batch[n]),
                      !.keys = @ \cup {"review_hash"}]]

save_step_begin(r) ==
  /\ run[r].kind = "inngest" /\ run[r].pc = "save"
  /\ run' = [run EXCEPT ![r].batch = assign_hashes(@), ![r].pc = "check",
                        ![r].i = 1]
  /\ UNCHANGED <<call, categories_cache, summarizer, entry, backend, apiKey, job, input, delivered, reviews, vectors,
                 knowledge, hashSeed, restarts, faults>>

LogEntry(n, result, inserted, indexed) ==
  [n |-> n, result |-> result, inserted |-> inserted, indexed |-> indexed]

\* save_step, second loop: the existence check of one review.
save_step_check(r, ok) ==
  LET rec == run[r]
      review == rec.batch[rec.i]
  IN
  /\ rec.kind = "inngest" /\ rec.pc = "check" /\ rec.i <= Len(rec.batch)
  /\ IF backend # "supabase"
     THEN /\ ok
          /\ run' = [run EXCEPT ![r].pc = "insert"]
          /\ UNCHANGED faults
     ELSE IF ~ok
     THEN \* the query raises: except Exception ... continue
          /\ faults < MaxFaults
          /\ faults' = faults + 1
          /\ run' = [run EXCEPT ![r].i = @ + 1,
                                ![r].log = Append(@, LogEntry(rec.i, "error", FALSE, "none"))]
     ELSE IF ExistsByHash(reviews, review.review_hash)
     THEN /\ run' = [run EXCEPT ![r].i = @ + 1,
                                ![r].skipped_count = @ + 1,
                                ![r].log = Append(@, LogEntry(rec.i, "skipped", FALSE, "none"))]
          /\ UNCHANGED faults
     ELSE /\ run' = [run EXCEPT ![r].pc = "insert"]
          /\ UNCHANGED faults
  /\ UNCHANGED <<call, categories_cache, summarizer, entry, backend, apiKey, job, input, delivered, reviews, vectors,
                 knowledge, hashSeed, restarts>>

\* save_step: await db.save_review(...).  save_review catches every
\* exception and returns False, which save_step does not look at.
save_step_insert(r, ok) ==
  LET rec == run[r]
      review == rec.batch[rec.i]
  IN
  /\ rec.kind = "inngest" /\ rec.pc = "insert"
  /\ IF ok
     THEN /\ reviews' = save_review(reviews, RowId(r, 0, rec.i), rec.job_id,
                                    review.platform, review)
          /\ UNCHANGED faults
     ELSE /\ faults < MaxFaults
          /\ faults' = faults + 1
          /\ UNCHANGED reviews
  /\ run' = [run EXCEPT ![r].pc = "index", ![r].inserted = ok]
  /\ UNCHANGED <<call, categories_cache, summarizer, entry, backend, apiKey, job, input, delivered, vectors, knowledge,
                 hashSeed, restarts>>

\* A save step whose loop ends at the first failure of the vector index.
save_step_index_breaks(r, ok) ==
  LET rec == run[r]
      review == rec.batch[rec.i]
  IN
  /\ rec.kind = "inngest" /\ rec.pc = "index"
  /\ IF ok
     THEN /\ vectors' = add_review(vectors, hashSeed, review.review_id, rec.job_id,
                                    review.keys)
          /\ UNCHANGED faults
          /\ run' = [run EXCEPT ![r].pc = "check", ![r].i = @ + 1,
                        ![r].inserted = FALSE,
                        ![r].saved_count = @ + 1,
                        ![r].log = Append(@, LogEntry(rec.i, "saved", rec.inserted, "ok"))]
     ELSE /\ faults < MaxFaults
          /\ faults' = faults + 1
          /\ UNCHANGED vectors
          /\ run' = [run EXCEPT ![r].pc = "check", ![r].i = Len(rec.batch) + 1,
                        ![r].inserted = FALSE,
                        ![r].log = Append(@, LogEntry(rec.i, "saved", rec.inserted, "fail"))]
  /\ UNCHANGED <<call, categories_cache, summarizer, entry, backend, apiKey, job, input, delivered, reviews, knowledge,
                 hashSeed, restarts>>

\* save_step: vector_service.add_review inside its own try, then
\* saved_count += 1.
save_step_index(r, ok) ==
  LET rec == run[r]
      review == rec.batch[rec.i]
  IN
  /\ rec.kind = "inngest" /\ rec.pc = "index"
  /\ IF ok
     THEN /\ vectors' = add_review(vectors, hashSeed, review.review_id, rec.job_id,
                                    review.keys)
          /\ UNCHANGED faults
     ELSE /\ faults < MaxFaults
          /\ faults' = faults + 1
          /\ UNCHANGED vectors
  /\ run' = [run EXCEPT ![r].pc = "check", ![r].i = @ + 1,
                        ![r].inserted = FALSE,
                        ![r].saved_count = @ + 1,
                        ![r].log = Append(@, LogEntry(rec.i, "saved", rec.inserted,
                                                      IF ok THEN "ok" ELSE "fail"))]
  /\ UNCHANGED <<call, categories_cache, summarizer, entry, backend, apiKey, job, input, delivered, reviews, knowledge,
                 hashSeed, restarts>>

\* save_step, after the loop: statistics, then status completed.
save_step_complete(r) ==
  LET rec == run[r] IN
  /\ rec.kind = "inngest" /\ rec.pc = "check" /\ rec.i > Len(rec.batch)
  /\ job' = update_job_status(update_job_statistics(job, rec.job_id, rec.batch),
                              rec.job_id, "completed", None)
  /\ run' = [run EXCEPT ![r] = Wrote([@ EXCEPT !.pc = "done"], "completed")]
  /\ UNCHANGED <<call, categories_cache, summarizer, entry, backend, apiKey, input, delivered, reviews, vectors, knowledge,
                 hashSeed, restarts, faults>>

(***************************************************************************)
(* ScrapingService.process_scraping_job.                                   *)
(***************************************************************************)
service_begin(r) ==
  /\ run[r].kind = "service" /\ run[r].pc = "begin"
  /\ WriteStatus(r, "running", None)
  /\ run' = [run EXCEPT ![r] = Wrote([@ EXCEPT !.pc = "route"], "running")]
  /\ UNCHANGED <<call, categories_cache, summarizer, entry, backend, apiKey, input, delivered, reviews, vectors, knowledge,
                 hashSeed, restarts, faults>>

\* URL mode platform detection and the empty platform list.
service_route(r) ==
  LET rec == run[r]
      inp == input[rec.job_id]
      detected == detect_platform_from_url(inp.search_query)
      platforms == IF inp.search_type = "url" THEN <<detected>> ELSE rec.platforms
  IN
  /\ rec.kind = "service" /\ rec.pc = "route"
  /\ IF inp.search_type = "url" /\ detected = "unknown"
     THEN /\ WriteStatus(r, "failed", "Could not detect platform from URL")
          /\ run' = [run EXCEPT ![r] = Wrote([@ EXCEPT !.pc = "done"], "failed")]
     ELSE IF platforms = << >>
     THEN /\ WriteStatus(r, "failed", "No platforms selected")
          /\ run' = [run EXCEPT ![r] = Wrote([@ EXCEPT !.pc = "done"], "failed")]
     ELSE /\ run' = [run EXCEPT ![r].pc = "scrape", ![r].platforms = platforms]
          /\ UNCHANGED job
  /\ UNCHANGED <<call, categories_cache, summarizer, entry, backend, apiKey, input, delivered, reviews, vectors, knowledge,
                 hashSeed, restarts, faults>>

Result(platform, reviews_) == [platform |-> platform, status |-> "success", reviews |-> reviews_]

\* One iteration of the platform loop.  The scrapers catch their own
\* exceptions and return an error dict with an empty review list.
service_platform(r, ok) ==
  LET rec == run[r]
      platform == rec.platforms[rec.p]
      inp == input[rec.job_id]
      got == IF inp.search_type = "keyword" /\ platform = "google" /\ apiKey
             THEN get_google_reviews_via_api
             ELSE scrape_url(platform)
  IN
  /\ rec.kind = "service" /\ rec.pc = "scrape" /\ rec.p <= Len(rec.platforms)
  /\ IF ok
     THEN /\ run' = [run EXCEPT ![r].p = @ + 1,
                        ![r].attempts = Append(@, Attempt(platform, "ok")),
                        ![r].results = Append(@, Result(platform, got))]
          /\ UNCHANGED faults
     ELSE /\ faults < MaxFaults
          /\ faults' = faults + 1
          /\ run' = [run EXCEPT ![r].p = @ + 1,
                        ![r].attempts = Append(@, Attempt(platform, "error")),
                        ![r].results = Append(@, Result(platform, << >>))]
  /\ UNCHANGED <<call, categories_cache, summarizer, entry, backend, apiKey, job, input, delivered, reviews, vectors,
                 knowledge, hashSeed, restarts>>

service_scraped(r) ==
  /\ run[r].kind = "service" /\ run[r].pc = "scrape"
  /\ run[r].p > Len(run[r].platforms)
  /\ run' = [run EXCEPT ![r].pc = "result", ![r].k = 1]
  /\ UNCHANGED <<call, categories_cache, summarizer, entry, backend, apiKey, job, input, delivered, reviews, vectors,
                 knowledge, hashSeed, restarts, faults>>

\* save_scraping_results: the stages a result's reviews still need, decided
\* on the first review of the result.
enrich_result(revs) ==
  LET a == IF revs # << >> /\ revs[1].sentiment = None
           THEN sentiment_batch(revs) ELSE revs
      b == IF a # << >> /\ a[1].keywords = << >>
           THEN keyword_batch(a) ELSE a
      c == IF b # << >> /\ ~b[1].has_summary
           THEN summarize_batch(b) ELSE b
  IN c


\* save_scraping_results: entering the loop body for one result.
save_results_next(r) ==
  LET rec == run[r] IN
  /\ rec.kind = "service" /\ rec.pc = "result" /\ rec.k <= Len(rec.results)
  /\ run' = [run EXCEPT ![r].batch = enrich_result(rec.results[rec.k].reviews),
                        ![r].i = 1, ![r].pc = "check"]
  /\ UNCHANGED <<call, categories_cache, summarizer, entry, backend, apiKey, job, input, delivered, reviews, vectors,
                 knowledge, hashSeed, restarts, faults>>

ServiceHash(review, platform) ==
  IF backend = "postgres" THEN PostgresHash(review, platform)
  ELSE SupabaseHash(review)

ServiceReviewId(review, platform) ==
  IF backend = "postgres" THEN PostgresReviewId(review, platform)
  ELSE SupabaseReviewId(review, platform)

\* save_scraping_results: hash and existence check of one review.  An
\* exception leaves the whole function through its outer except.
save_results_check(r, ok) ==
  LET rec == run[r]
      review == rec.batch[rec.i]
      platform == rec.results[rec.k].platform
  IN
  /\ rec.kind = "service" /\ rec.pc = "check" /\ rec.i <= Len(rec.batch)
  /\ IF backend = "supabase" /\ review.text = << >>
     THEN /\ ok
          /\ run' = [run EXCEPT ![r].i = @ + 1]
          /\ UNCHANGED faults
     ELSE IF ~ok
     THEN /\ faults < MaxFaults
          /\ faults' = faults + 1
          /\ run' = [run EXCEPT ![r].pc = "stats",
                                ![r].log = Append(@, LogEntry(rec.i, "error", FALSE, "none"))]
     ELSE IF ExistsByHash(reviews, ServiceHash(review, platform))
     THEN /\ run' = [run EXCEPT ![r].i = @ + 1,
                                ![r].log = Append(@, LogEntry(rec.i, "skipped", FALSE, "none"))]
          /\ UNCHANGED faults
     ELSE /\ run' = [run EXCEPT ![r].pc = "insert"]
          /\ UNCHANGED faults
  /\ UNCHANGED <<call, categories_cache, summarizer, entry, backend, apiKey, job, input, delivered, reviews, vectors,
                 knowledge, hashSeed, restarts>>

save_results_insert(r, ok) ==
  LET rec == run[r]
      review == rec.batch[rec.i]
      platform == rec.results[rec.k].platform
  IN
  /\ rec.kind = "service" /\ rec.pc = "insert"
  /\ IF ok
     THEN /\ reviews' = InsertReview(reviews, RowId(r, rec.k, rec.i), rec.job_id,
                                     platform, review,
                                     ServiceHash(review, platform),
                                     ServiceReviewId(review, platform))
          /\ run' = [run EXCEPT ![r].pc = "check", ![r].i = @ + 1,
                                ![r].log = Append(@, LogEntry(rec.i, "saved", TRUE, "none"))]
          /\ UNCHANGED faults
     ELSE /\ faults < MaxFaults
          /\ faults' = faults + 1
          /\ UNCHANGED reviews
          /\ run' = [run EXCEPT ![r].pc = "stats",
                                ![r].log = Append(@, LogEntry(rec.i, "error", FALSE, "none"))]
  /\ UNCHANGED <<call, categories_cache, summarizer, entry, backend, apiKey, job, input, delivered, vectors, knowledge,
                 hashSeed, restarts>>

\* End of the inner loop: on to the next result.
save_results_advance(r) ==
  LET rec == run[r] IN
  /\ rec.kind = "service" /\ rec.pc = "check" /\ rec.i > Len(rec.batch)
  /\ run' = [run EXCEPT ![r].pc = "result", ![r].k = @ + 1]
  /\ UNCHANGED <<call, categories_cache, summarizer, entry, backend, apiKey, job, input, delivered, reviews, vectors,
                 knowledge, hashSeed, restarts, faults>>

RECURSIVE AllReviews(_, _)
AllReviews(results, k) ==
  IF k > Len(results) THEN << >>
  ELSE results[k].reviews \o AllReviews(results, k + 1)

\* After save_scraping_results: statistics over the reviews of the results,
\* then status completed.
service_complete(r) ==
  LET rec == run[r] IN
  /\ rec.kind = "service"
  /\ \/ rec.pc = "stats"
     \/ rec.pc = "result" /\ rec.k > Len(rec.results)
  /\ job' = update_job_status(
              update_job_statistics(job, rec.job_id, AllReviews(rec.results, 1)),
              rec.job_id, "completed", None)
  /\ run' = [run EXCEPT ![r] = Wrote([@ EXCEPT !.pc = "done"], "completed")]
  /\ UNCHANGED <<call, categories_cache, summarizer, entry, backend, apiKey, input, delivered, reviews, vectors, knowledge,
                 hashSeed, restarts, faults>>

\* The entry point returns; its locals are dropped.
Return(r) ==
  /\ run[r].pc = "done"
  /\ run' = [run EXCEPT ![r] = Over(@, "returned")]
  /\ UNCHANGED <<call, categories_cache, summarizer, entry, backend, apiKey, job, input, delivered, reviews, vectors,
                 knowledge, hashSeed, restarts, faults>>

\* The server process is restarted between runs.  The string-hash seed of
\* the next process is whatever the interpreter draws: the same one when
\* PYTHONHASHSEED is pinned, another one otherwise.
Restart ==
  /\ restarts < MaxRestarts
  /\ \A r \in Runs : run[r].pc \in {"idle", "returned", "raised"}
  /\ restarts' = restarts + 1
  /\ \E seed \in HashSeeds : hashSeed' = seed
  /\ UNCHANGED <<call, categories_cache, summarizer, entry, backend, apiKey, job, input, delivered, run, reviews,
                 vectors, knowledge, faults>>

(***************************************************************************)
(* Specification of the pipeline.                                          *)
(***************************************************************************)
\* From the platform loop to the start of the save loop a run works on its
\* own batch only and writes no table, and the upsert that follows an insert
\* writes the vector index only: these steps commute with the steps of the
\* other runs, so the interleavings are explored with such a stretch taken
\* without interruption.
Computing(r) ==
  run[r].pc \in {"scrape", "sentiment", "keywords", "summaries", "save",
                 "index", "done"}

Schedulable(r) == \A q \in Runs : q # r => ~Computing(q)

Quiet == \A q \in Runs : ~Computing(q)

InngestStep(r) ==
  \/ scrape_step_begin(r)
  \/ \E ok \in BOOLEAN : scrape_step_platform(r, ok)
  \/ scrape_step_return(r)
  \/ sentiment_step(r)
  \/ keyword_step(r)
  \/ summary_step(r)
  \/ save_step_begin(r)
  \/ \E ok \in BOOLEAN : save_step_check(r, ok)
  \/ \E ok \in BOOLEAN : save_step_insert(r, ok)
  \/ \E ok \in BOOLEAN : save_step_index(r, ok)
  \/ save_step_complete(r)

ServiceStep(r) ==
  \/ service_begin(r)
  \/ service_route(r)
  \/ \E ok \in BOOLEAN : service_platform(r, ok)
  \/ service_scraped(r)
  \/ save_results_next(r)
  \/ \E ok \in BOOLEAN : save_results_check(r, ok)
  \/ \E ok \in BOOLEAN : save_results_insert(r, ok)
  \/ save_results_advance(r)
  \/ service_complete(r)

Next ==
  \/ \E j \in Jobs, inp \in JobInputs : Quiet /\ start_scraping(j, inp)
  \/ \E j \in Jobs, r \in Runs : Quiet /\ Deliver(j, r)
  \/ \E r \in Runs : Schedulable(r) /\ InngestStep(r)
  \/ \E r \in Runs : Schedulable(r) /\ ServiceStep(r)
  \/ \E r \in Runs : Schedulable(r) /\ Return(r)
  \/ Restart

Spec == Init /\ [][Next]_vars

TypeOK ==
  /\ entry \in {"inngest", "service"}
  /\ backend \in {"supabase", "postgres"}
  /\ apiKey \in BOOLEAN
  /\ faults \in 0..MaxFaults
  /\ \A r \in Runs : run[r].pc \in {"idle", "begin", "route", "scrape", "sentiment",
        "keywords", "summaries", "save", "check", "insert", "index", "result",
        "stats", "done", "returned", "raised"}

(***************************************************************************)
(* Specification of the vector index maintenance routes, started from the  *)
(* state one completed keyword job leaves behind.                          *)
(***************************************************************************)
MaxDocs == 3

\* Knowledge documents an operator posts: title and text.
KnowledgeDocs ==
  {[title |-> <<"doc", ToString(d)>>, text |-> <<"policy">>] : d \in 1..MaxDocs}

\* /api/knowledge/add: md5 of title + text, 16 hex characters.
DocId(doc) == Take16(md5(doc.title \o doc.text))

\* The batch the save stage of a keyword job on google and tripadvisor
\* works on when the Places API key is configured.
StoredBatch ==
  assign_hashes(summarize_batch(keyword_batch(sentiment_batch(
    get_google_reviews_via_api \o scrape_url("tripadvisor")))))

StoredRows ==
  {[id |-> RowId(1, 0, n), job_id |-> 1, platform |-> StoredBatch[n].platform,
    review_id |-> StoredBatch[n].review_id, review_hash |-> NoHash,
    raw_data |-> StoredBatch[n]] : n \in 1..Len(StoredBatch)}

StoredPoints ==
  {[id |-> PointId(0, StoredBatch[n].review_id),
    review_id |-> StoredBatch[n].review_id, job_id |-> 1,
    enriched |-> StoredBatch[n].keys] : n \in 1..Len(StoredBatch)}

InitVector ==
  /\ call = NoCall
  /\ categories_cache = Dictionary
  /\ summarizer = None
  /\ entry = "inngest"
  /\ backend = "supabase"
  /\ apiKey = TRUE
  /\ job = [j \in Jobs |->
              IF j = 1 THEN [NoJob EXCEPT !.status = "completed"] ELSE NoJob]
  /\ input = [j \in Jobs |->
                IF j = 1
                THEN [search_type |-> "keyword", search_query |-> {},
                      platforms |-> <<"google", "tripadvisor">>]
                ELSE NoInput]
  /\ delivered = [j \in Jobs |-> IF j = 1 THEN 1 ELSE 0]
  /\ run = [r \in Runs |->
              IF r = 1
              THEN [IdleRun EXCEPT !.job_id = 1, !.kind = "inngest",
                                   !.pc = "returned",
                                   !.writes = <<"running", "completed">>]
              ELSE IdleRun]
  /\ hashSeed = 0
  /\ restarts = 0
  /\ faults = 0
  /\ reviews = StoredRows
  /\ vectors = StoredPoints
  /\ knowledge = {}

\* The rows are taken in some order; stored rows that share a review_id
\* give the same point, so the order does not show in the collection.
RECURSIVE IndexRows(_, _, _)
IndexRows(collection, rows, seed) ==
  IF rows = {} THEN collection
  ELSE LET row == CHOOSE x \in rows : TRUE IN
       IndexRows(add_review(collection, seed, row.review_id, row.job_id,
                            row.raw_data.keys),
                 rows \ {row}, seed)

\* /api/vector/index-reviews: add_review for every stored row that has a
\* text and a review_id; `failing` are the rows whose add_review returns
\* False.
index_existing_reviews(failing) ==
  /\ reviews # {}
  /\ vectors' = IndexRows(vectors,
                   {row \in reviews \ failing :
                      row.raw_data.text # << >> /\ row.review_id # NoId},
                   hashSeed)
  /\ UNCHANGED <<call, categories_cache, summarizer, entry, backend, apiKey, job, input, delivered, run, reviews,
                 knowledge, hashSeed, restarts, faults>>

\* /api/knowledge/add
api_add_knowledge(doc, ok) ==
  /\ knowledge' = IF ok THEN add_knowledge(knowledge, hashSeed, DocId(doc))
                   ELSE knowledge
  /\ UNCHANGED <<call, categories_cache, summarizer, entry, backend, apiKey, job, input, delivered, run, reviews,
                 vectors, hashSeed, restarts, faults>>

NextVector ==
  \/ \E failing \in SUBSET reviews : index_existing_reviews(failing)
  \/ \E doc \in KnowledgeDocs, ok \in BOOLEAN : api_add_knowledge(doc, ok)
  \/ Restart

SpecVector == InitVector /\ [][NextVector]_vars

(***************************************************************************)
(* The sentiment analyzer called directly: analyze_sentiment_from_rating   *)
(* on one rating, analyze_reviews_batch on a batch, get_sentiment_summary  *)
(* on the batch it returned.  The analyzer keeps no state between calls;   *)
(* `call` records the last call and what it returned.                      *)
(***************************************************************************)
\* Ratings run from 0 to 10 stars, in tenths of a star.
MaxRating10 == 100

MaxBatch == 2

Ratings10 == 0..MaxRating10

AnalyzerTexts == {<<"good">>, << >>, <<" ">>, NullText}

AnalyzerReviews ==
  {[text |-> t, rating |-> r] :
     t \in AnalyzerTexts, r \in {NoRating, 20, 45, MaxRating10}}

AnalyzerBatches ==
  UNION {[1..n -> AnalyzerReviews] : n \in 0..MaxBatch}

\* The positions of a batch at which the classifier is run.
Classified(batch) ==
  {i \in 1..Len(batch) :
     batch[i].text # NullText /\ Strip(batch[i].text) # << >>}

InitSentiment ==
  /\ call = NoCall
  /\ categories_cache = Dictionary
  /\ summarizer = None
  /\ entry = "inngest"
  /\ backend = "supabase"
  /\ apiKey = TRUE
  /\ job = [j \in Jobs |-> NoJob]
  /\ input = [j \in Jobs |-> NoInput]
  /\ delivered = [j \in Jobs |-> 0]
  /\ run = [r \in Runs |-> IdleRun]
  /\ hashSeed = 0
  /\ restarts = 0
  /\ faults = 0
  /\ reviews = {}
  /\ vectors = {}
  /\ knowledge = {}

call_analyze_sentiment_from_rating(rating) ==
  /\ call' = [op |-> "analyze_sentiment_from_rating", arg |-> rating,
              available |-> TRUE, failing |-> {},
              ret |-> analyze_sentiment_from_rating(rating), effects |-> << >>]
  /\ UNCHANGED <<categories_cache, summarizer, entry, backend, apiKey, job, input, delivered, run, reviews,
                 vectors, knowledge, hashSeed, restarts, faults>>

call_analyze_reviews_batch(batch, available, failing) ==
  /\ call' = [op |-> "analyze_reviews_batch", arg |-> batch,
              available |-> available, failing |-> failing,
              ret |-> analyze_reviews_batch(batch, available, failing),
              effects |-> << >>]
  /\ UNCHANGED <<categories_cache, summarizer, entry, backend, apiKey, job, input, delivered, run, reviews,
                 vectors, knowledge, hashSeed, restarts, faults>>

\* The summary of the batch the last call returned.
call_get_sentiment_summary ==
  /\ call.op = "analyze_reviews_batch"
  /\ ~call.ret.raised
  /\ call' = [op |-> "get_sentiment_summary", arg |-> call.ret.out,
              available |-> call.available, failing |-> call.failing,
              ret |-> get_sentiment_summary(call.ret.out), effects |-> << >>]
  /\ UNCHANGED <<categories_cache, summarizer, entry, backend, apiKey, job, input, delivered, run, reviews,
                 vectors, knowledge, hashSeed, restarts, faults>>

NextSentiment ==
  \/ \E rating \in Ratings10 \cup {NoRating} :
       call_analyze_sentiment_from_rating(rating)
  \/ \E batch \in AnalyzerBatches, available \in BOOLEAN :
       \E failing \in SUBSET (IF available THEN Classified(batch) ELSE {}) :
         call_analyze_reviews_batch(batch, available, failing)
  \/ call_get_sentiment_summary

SpecSentiment == InitSentiment /\ [][NextSentiment]_vars

(***************************************************************************)
(* The keyword analyzer called directly.  Its only state is the cache of   *)
(* the category dictionary.                                                *)
(***************************************************************************)
Words ==
  {<<"t", "h", "e">>,
   <<"d", "e">>,
   <<"e", "t">>,
   <<"p", "o", "o", "l">>,
   <<"b", "a", "r">>,
   <<"w", "i", "f", "i">>}

\* The empty text, the texts of one or two words and a capitalized one.
Texts ==
  {<< >>, <<"P", "o", "o", "l">>} \cup Words
    \cup {a \o <<" ">> \o b : a, b \in Words}

\* Reviews of a keyword batch.
BatchTexts ==
  {<< >>, <<"b", "a", "r", " ", "p", "o", "o", "l">>,
   <<"d", "e", " ", "w", "i", "f", "i">>}

KeywordBatches ==
  UNION {[1..n -> {[text |-> t] : t \in BatchTexts}] : n \in 1..2}

InitKeywords ==
  /\ call = NoCall
  /\ categories_cache = NoCategories
  /\ summarizer = None
  /\ entry = "inngest"
  /\ backend = "supabase"
  /\ apiKey = TRUE
  /\ job = [j \in Jobs |-> NoJob]
  /\ input = [j \in Jobs |-> NoInput]
  /\ delivered = [j \in Jobs |-> 0]
  /\ run = [r \in Runs |-> IdleRun]
  /\ hashSeed = 0
  /\ restarts = 0
  /\ faults = 0
  /\ reviews = {}
  /\ vectors = {}
  /\ knowledge = {}

call_detect_language(text) ==
  /\ call' = [op |-> "_detect_language", arg |-> text, available |-> TRUE,
              failing |-> {}, ret |-> detect_language(text),
              effects |-> [queries |-> 0]]
  /\ UNCHANGED <<categories_cache, summarizer, entry, backend, apiKey, job, input,
                 delivered, run, reviews, vectors, knowledge, hashSeed,
                 restarts, faults>>

call_analyze_review_keywords(text, db, keywords) ==
  \E res \in {analyze_review_keywords(categories_cache, text, db, keywords)} :
  /\ call' = [op |-> "analyze_review_keywords", arg |-> text,
              available |-> TRUE, failing |-> {}, ret |-> res.out,
              effects |-> [queries |-> res.queries]]
  /\ categories_cache' = res.cache
  /\ UNCHANGED <<summarizer, entry, backend, apiKey, job, input, delivered, run,
                 reviews, vectors, knowledge, hashSeed, restarts, faults>>

call_keyword_analyze_reviews_batch(batch, db, orders) ==
  \E res \in {keyword_analyze_reviews_batch(categories_cache, batch, db, orders)} :
  /\ call' = [op |-> "keyword_analyze_reviews_batch", arg |-> batch,
              available |-> TRUE, failing |-> {}, ret |-> res.out,
              effects |-> [queries |-> res.queries]]
  /\ categories_cache' = res.cache
  /\ UNCHANGED <<summarizer, entry, backend, apiKey, job, input, delivered, run,
                 reviews, vectors, knowledge, hashSeed, restarts, faults>>

NextKeywords ==
  \/ \E text \in Texts : call_detect_language(text)
  \/ \E text \in Texts, db \in DbOutcomes :
       \E keywords \in ExtractedOrders(categories_cache, text) :
         call_analyze_review_keywords(text, db, keywords)
  \/ \E batch \in KeywordBatches, db \in DbOutcomes :
       \E orders \in BatchOrders(BatchCache(categories_cache, db), batch) :
         call_keyword_analyze_reviews_batch(batch, db, orders)

SpecKeywords == InitKeywords /\ [][NextKeywords]_vars

(***************************************************************************)
(* The summarizer called directly.  Its only state is the loaded model.    *)
(***************************************************************************)
\* Texts around the threshold, with and without surrounding whitespace.
SummaryTexts ==
  {SummaryText(0, 0, 0), SummaryText(0, min_review_length, 0),
   SummaryText(0, min_review_length, 1), SummaryText(0, min_review_length + 1, 0),
   SummaryText(1, min_review_length + 1, 1)}

SummaryBatches ==
  UNION {[1..n -> {[text |-> t] : t \in SummaryTexts}] : n \in 1..MaxBatch}

InitSummarizer ==
  /\ call = NoCall
  /\ categories_cache = Dictionary
  /\ summarizer = None
  /\ entry = "inngest"
  /\ backend = "supabase"
  /\ apiKey = TRUE
  /\ job = [j \in Jobs |-> NoJob]
  /\ input = [j \in Jobs |-> NoInput]
  /\ delivered = [j \in Jobs |-> 0]
  /\ run = [r \in Runs |-> IdleRun]
  /\ hashSeed = 0
  /\ restarts = 0
  /\ faults = 0
  /\ reviews = {}
  /\ vectors = {}
  /\ knowledge = {}

call_summarize_reviews_batch(batch, load_ok, outcomes) ==
  \E res \in {summarize_reviews_batch(summarizer, batch, load_ok, outcomes)} :
  /\ call' = [op |-> "summarize_reviews_batch", arg |-> batch,
              available |-> load_ok, failing |-> outcomes, ret |-> res.out,
              effects |-> res.effects]
  /\ summarizer' = res.summarizer
  /\ UNCHANGED <<categories_cache, entry, backend, apiKey, job, input, delivered,
                 run, reviews, vectors, knowledge, hashSeed, restarts, faults>>

\* The process is restarted: the model has to be loaded again.
restart_summarizer ==
  /\ summarizer # None
  /\ summarizer' = None
  /\ UNCHANGED <<call, categories_cache, entry, backend, apiKey, job, input, delivered,
                 run, reviews, vectors, knowledge, hashSeed, restarts, faults>>

NextSummarizer ==
  \/ \E batch \in SummaryBatches, load_ok \in BOOLEAN :
       \E outcomes \in [1..Len(batch) -> ModelOutcomes] :
         call_summarize_reviews_batch(batch, load_ok, outcomes)
  \/ restart_summarizer

SpecSummarizer == InitSummarizer /\ [][NextSummarizer]_vars

(***************************************************************************)
(* Semantic search over the reviews collection.  Scores are in hundredths. *)
(***************************************************************************)
MaxPoints == 2
MaxLimit == 2

SearchScores == {20, 50, 80}
ScoreThresholds == {50, 70}
\* filter_params without a job_id.
NoFilter == [job_id |-> 0]

\* The points of the reviews collection, each with the similarity the
\* index computes between it and the query; the reviews belong to the
\* jobs in turn.
SearchPoints ==
  {[review_id |-> n, job_id |-> ((n - 1) % MaxJobs) + 1, score |-> sc] :
     n \in 1..MaxPoints, sc \in SearchScores}

Collections ==
  {c \in SUBSET SearchPoints :
     \A a, b \in c : a.review_id = b.review_id => a = b}

\* VectorService.generate_embedding: an empty list when the embedding
\* model is not initialized or encode raises.
generate_embedding(model_ok) == IF model_ok THEN <<"embedding">> ELSE << >>

\* The filter search_reviews builds from filter_params.
query_filter(collection, filter_params) ==
  IF filter_params = NoFilter THEN collection
  ELSE {p \in collection : p.job_id = filter_params.job_id}

\* The orders in which the index may rank a set of points: by descending
\* score, points of equal score in any order.
Ranked(points) ==
  {h \in [1..Cardinality(points) -> points] :
     /\ \A a, b \in 1..Cardinality(points) : a # b => h[a] # h[b]
     /\ \A a, b \in 1..Cardinality(points) : a < b => h[a].score >= h[b].score}

\* client.search with limit and no score threshold.
client_search(collection, filter_params, limit) ==
  {SubSeq(h, 1, IF Len(h) < limit THEN Len(h) ELSE limit) :
     h \in Ranked(query_filter(collection, filter_params))}

FormatHit(hit) ==
  [score |-> hit.score, review_id |-> hit.review_id, job_id |-> hit.job_id]

RECURSIVE format_results_unfiltered(_, _)
\* A result loop that keeps every hit of the index.
format_results_unfiltered(hits, score_threshold) ==
  IF hits = << >> THEN << >>
  ELSE <<FormatHit(Head(hits))>>
         \o format_results_unfiltered(Tail(hits), score_threshold)

RECURSIVE format_results(_, _)
\* The result loop of search_reviews: a hit below the threshold is passed
\* over, the others are appended in the order of the index.
format_results(hits, score_threshold) ==
  IF hits = << >> THEN << >>
  ELSE IF Head(hits).score < score_threshold
       THEN format_results(Tail(hits), score_threshold)
       ELSE <<FormatHit(Head(hits))>>
              \o format_results(Tail(hits), score_threshold)

\* VectorService.search_reviews: `hits` is what client.search returns when
\* it does not raise.
search_reviews(model_ok, client_ok, hits, score_threshold) ==
  IF generate_embedding(model_ok) = << >> THEN << >>
  ELSE IF ~client_ok THEN << >>
  ELSE format_results(hits, score_threshold)

InitSearch ==
  /\ call = NoCall
  /\ categories_cache = Dictionary
  /\ summarizer = None
  /\ entry = "inngest"
  /\ backend = "supabase"
  /\ apiKey = TRUE
  /\ job = [j \in Jobs |-> NoJob]
  /\ input = [j \in Jobs |-> NoInput]
  /\ delivered = [j \in Jobs |-> 0]
  /\ run = [r \in Runs |-> IdleRun]
  /\ hashSeed = 0
  /\ restarts = 0
  /\ faults = 0
  /\ reviews = {}
  /\ vectors = {}
  /\ knowledge = {}

call_search_reviews(collection, filter_params, limit, score_threshold, model_ok, client_ok) ==
  \E hits \in client_search(collection, filter_params, limit) :
  /\ call' = [op |-> "search_reviews",
              arg |-> [collection |-> collection, filter_params |-> filter_params,
                       limit |-> limit, score_threshold |-> score_threshold],
              available |-> model_ok, failing |-> ~client_ok,
              ret |-> search_reviews(model_ok, client_ok, hits, score_threshold),
              effects |-> [hits |-> hits]]
  /\ UNCHANGED <<categories_cache, summarizer, entry, backend, apiKey, job, input,
                 delivered, run, reviews, vectors, knowledge, hashSeed, restarts,
                 faults>>

NextSearch ==
  \E collection \in Collections, limit \in 1..MaxLimit,
     score_threshold \in ScoreThresholds, model_ok, client_ok \in BOOLEAN :
    \E filter_params \in {NoFilter, [job_id |-> 1]} :
      call_search_reviews(collection, filter_params, limit, score_threshold,
                          model_ok, client_ok)

SpecSearch == InitSearch /\ [][NextSearch]_vars

(***************************************************************************)
(* Properties: the job state machine.                                      *)
(***************************************************************************)
Last(seq) == seq[Len(seq)]

\* C1: a job's status only moves forward in the documented order, "failed"
\* is entered from a non-terminal status only, and a status of completed or
\* failed is never changed by a later write, redelivery of the job-created
\* event included.
C1_StatusOnlyMovesForward ==
  [][\A j \in Jobs :
       job'[j].status # job[j].status =>
         /\ job[j].status \notin Terminal
         /\ \/ job'[j].status = "failed"
            \/ StatusRank(job'[j].status) > StatusRank(job[j].status)]_vars

\* C2: every run of an orchestrator entry point that is over has left its
\* job completed or failed: no exception left the entry point, and the last
\* status the run wrote is a terminal one.
C2_EveryRunEndsTerminal ==
  \A r \in Runs :
    run[r].pc \in Finished =>
      /\ run[r].pc # "raised"
      /\ run[r].writes # << >>
      /\ Last(run[r].writes) \in Terminal

Enrichment == {"sentiment", "keywords", "has_summary"}

HasKeys(batch, keys) == \A n \in 1..Len(batch) : keys \subseteq batch[n].keys

StageStatus(pc) ==
  CASE pc = "scrape" -> {"running", "scraping"}
    [] pc = "sentiment" -> {"analyzing_sentiment"}
    [] pc = "keywords" -> {"analyzing_keywords"}
    [] pc = "summaries" -> {"generating_summaries"}
    [] pc \in {"save", "check", "insert", "index"} -> {"saving_results"}
    [] OTHER -> {}

\* C4: while a run is in a stage, the last status it wrote, and the status
\* stored for its job, is the one that names that stage.
C4_StatusNamesRunningStage ==
  \A r \in Runs :
    StageStatus(run[r].pc) # {} =>
      /\ run[r].writes # << >>
      /\ Last(run[r].writes) \in StageStatus(run[r].pc)
      /\ job[run[r].job_id].status \in StageStatus(run[r].pc)

(***************************************************************************)
(* Properties: content addressing and deduplication.                       *)
(***************************************************************************)
\* The rows that carry hash h, in the review_hash column or in raw_data.
RowsWithHash(h) ==
  {row \in reviews : row.review_hash = h \/ row.raw_data.review_hash = h}

\* C5: when the save stage of the Inngest function is over and the store
\* raised no error, every hash of the batch has exactly one row, and every
\* later occurrence of a hash in the batch was skipped and counted as a
\* duplicate.
C5_SaveStageKeepsOneRowPerHash ==
  \A r \in Runs :
    LET rec == run[r] IN
    (rec.kind = "inngest" /\ backend = "supabase" /\ faults = 0 /\ rec.pc = "done")
      => /\ \A n \in 1..Len(rec.batch) :
              /\ Cardinality(RowsWithHash(rec.batch[n].review_hash)) = 1
              /\ (\E m \in 1..(n - 1) :
                     rec.batch[m].review_hash = rec.batch[n].review_hash)
                   => rec.log[n].result = "skipped"
         /\ rec.skipped_count + rec.saved_count = Len(rec.batch)

\* C6: the three save paths give a review that a run has persisted the same
\* hash and the same review id.
C6_OneHashSchemeOnEveryPath ==
  \A row \in reviews :
    LET review == row.raw_data
        platform == row.platform
    IN
    row.job_id \in Jobs =>
    /\ InngestHash(review) = SupabaseHash(review)
    /\ InngestHash(review) = PostgresHash(review, platform)
    /\ InngestReviewId(review) = SupabaseReviewId(review, platform)
    /\ InngestReviewId(review) = PostgresReviewId(review, platform)

\* The hash a row was persisted under.
Fingerprint(row) ==
  IF row.review_hash # NoHash THEN row.review_hash ELSE row.raw_data.review_hash

\* The hash the deployed save path computes for a review now.
PathHash(review, platform) ==
  IF entry = "inngest" THEN InngestHash(review) ELSE ServiceHash(review, platform)

SameContent(a, b) ==
  /\ a.platform = b.platform
  /\ a.raw_data.author = b.raw_data.author
  /\ a.raw_data.text = b.raw_data.text
  /\ a.raw_data.rating = b.raw_data.rating

\* C7: the hash a row was persisted under is the hash the save path
\* computes for the same (platform, author, text, rating) in the current
\* process, rows of identical content carry the same hash and review id,
\* and the review id is the platform, "_" and the first 16 hex characters
\* of the hash.
C7_FingerprintIsStable ==
  /\ \A row \in reviews :
       /\ Fingerprint(row) = PathHash(row.raw_data, row.platform)
       /\ row.review_id = FormatReviewId(row.platform, Take16(Fingerprint(row)))
       /\ Take16(Fingerprint(row)).hex = 16
  /\ \A a, b \in reviews :
       SameContent(a, b) =>
         /\ Fingerprint(a) = Fingerprint(b)
         /\ a.review_id = b.review_id

\* The same content has been persisted in two processes of different seed.
C7_Witness ==
  \E a, b \in reviews :
    /\ a # b /\ SameContent(a, b)
    /\ \E x, y \in vectors :
         /\ x.review_id = a.review_id /\ y.review_id = a.review_id
         /\ x.id.seed # y.id.seed

\* C8: the vector index holds one point per review id and one per document
\* id, whichever process indexed it.
C8_OnePointPerId ==
  /\ \A x, y \in vectors : x.review_id = y.review_id => x.id = y.id
  /\ \A x, y \in knowledge : x.doc_id = y.doc_id => x.id = y.id

(***************************************************************************)
(* Properties: failure isolation.                                          *)
(***************************************************************************)
\* C9: a failure of the vector index for one review leaves its row
\* persisted, the loop goes on with the next review of the batch, and the
\* run writes completed.
C9_VectorFailureIsContained ==
  \A r \in Runs :
    LET rec == run[r] IN
    rec.kind = "inngest" =>
      /\ \A n \in 1..Len(rec.log) :
           rec.log[n].indexed = "fail" =>
             /\ rec.log[n].result = "saved"
             /\ rec.log[n].inserted
                  => \E row \in reviews : row.id = RowId(r, 0, rec.log[n].n)
      /\ rec.pc \in {"check", "insert", "index"} => Len(rec.log) = rec.i - 1
      /\ rec.pc = "done"
           => /\ Len(rec.log) = Len(rec.batch)
              /\ Last(rec.writes) = "completed"

\* A run is over whose vector index failed for a review that is not the
\* last of its batch.
C9_Witness ==
  \E r \in Runs :
    /\ run[r].kind = "inngest" /\ run[r].pc = "done"
    /\ \E n \in 1..(Len(run[r].log) - 1) :
         /\ run[r].log[n].indexed = "fail" /\ run[r].log[n].inserted
         /\ run[r].log[n + 1].indexed = "ok"

\* The point where the scrape stage hands its reviews to the later stages.
HandOff(rec) ==
  \/ rec.kind = "inngest" /\ rec.pc = "sentiment"
  \/ rec.kind = "service" /\ rec.pc = "result" /\ rec.k = 1

Collected(rec) ==
  IF rec.kind = "inngest" THEN rec.batch ELSE AllReviews(rec.results, 1)

\* What the platforms that answered show.
RECURSIVE Answered(_, _)
Answered(attempts, n) ==
  IF n > Len(attempts) THEN << >>
  ELSE (IF attempts[n].outcome # "ok" THEN << >>
        ELSE IF attempts[n].platform = "google" /\ apiKey
        THEN get_google_reviews_via_api
        ELSE scrape_url(attempts[n].platform))
       \o Answered(attempts, n + 1)

\* C10, as stated: in keyword mode every requested platform is attempted, a
\* failure is recorded for its platform only, and the reviews of the
\* platforms that answered are all handed to the later stages.
C10_EveryPlatformAttempted ==
  \A r \in Runs :
    LET rec == run[r] IN
    (HandOff(rec) /\ input[rec.job_id].search_type = "keyword")
      => /\ Len(rec.attempts) = Len(rec.platforms)
         /\ \A n \in 1..Len(rec.attempts) :
              /\ rec.attempts[n].platform = rec.platforms[n]
              /\ rec.attempts[n].outcome \in {"ok", "error"}
         /\ Collected(rec) = Answered(rec.attempts, 1)

\* C10, amended: in keyword mode every requested platform is attempted,
\* except google in the Inngest function when no Places API key is
\* configured, which is skipped; a failure is recorded for its platform
\* only, and the reviews of the platforms that answered are all handed to
\* the later stages.
C10_PlatformFailuresAreIsolated ==
  \A r \in Runs :
    LET rec == run[r] IN
    (HandOff(rec) /\ input[rec.job_id].search_type = "keyword")
      => /\ Len(rec.attempts) = Len(rec.platforms)
         /\ \A n \in 1..Len(rec.attempts) :
              /\ rec.attempts[n].platform = rec.platforms[n]
              /\ rec.attempts[n].outcome \in {"ok", "error", "skipped"}
              /\ rec.attempts[n].outcome = "skipped"
                   <=> (rec.kind = "inngest" /\ ~apiKey
                        /\ rec.platforms[n] = "google")
         /\ Collected(rec) = Answered(rec.attempts, 1)

\* One platform failed and another one's reviews are handed on.
C10_Witness ==
  \E r \in Runs :
    LET rec == run[r] IN
    /\ HandOff(rec) /\ input[rec.job_id].search_type = "keyword"
    /\ \E n, m \in 1..Len(rec.attempts) :
         /\ rec.attempts[n].outcome = "error"
         /\ rec.attempts[m].outcome = "ok"
    /\ Collected(rec) # << >>

(***************************************************************************)
(* Properties: hard failures of a job.                                     *)
(***************************************************************************)
\* C11: a run that has attempted every platform of its job writes completed
\* only when at least one platform answered, and failed when every one of
\* them ended in an exception or an error result.
C11_AllPlatformsFailedMeansFailed ==
  \A r \in Runs :
    LET rec == run[r] IN
    (rec.pc = "done" /\ rec.attempts # << >>
       /\ Len(rec.attempts) = Len(rec.platforms))
      => (Last(rec.writes) = "completed"
            <=> \E n \in 1..Len(rec.attempts) : rec.attempts[n].outcome = "ok")

\* The URL of the job of run r names no known platform.
UnknownUrl(r) ==
  /\ input[run[r].job_id].search_type = "url"
  /\ detect_platform_from_url(input[run[r].job_id].search_query) = "unknown"

\* C12: a run on a job in url mode whose URL names no known platform ends
\* with the job failed and an error message stored, fetches no page, and
\* no review of that job is persisted or indexed.
C12_UnknownUrlFailsTheJob ==
  \A r \in Runs :
    (run[r].pc \in Finished /\ UnknownUrl(r))
      => /\ run[r].pc # "raised"
         /\ run[r].writes # << >> /\ Last(run[r].writes) = "failed"
         /\ job[run[r].job_id].message # None
         /\ run[r].attempts = << >>
         /\ \A row \in reviews : row.job_id # run[r].job_id
         /\ \A q \in vectors : q.job_id # run[r].job_id

\* C13: a run on a job with an empty platform list ends with the job failed
\* and the message "No platforms selected" stored, and never writes
\* completed.
C13_NoPlatformsFailsTheJob ==
  \A r \in Runs :
    (run[r].pc \in Finished /\ input[run[r].job_id].search_type = "keyword"
       /\ input[run[r].job_id].platforms = << >>)
      => /\ run[r].writes # << >> /\ Last(run[r].writes) = "failed"
         /\ job[run[r].job_id].message = "No platforms selected"
         /\ \A n \in 1..Len(run[r].writes) : run[r].writes[n] # "completed"

\* The store failed under run r: an existence check raised or an insert did
\* not go through.
StorageFailed(rec) ==
  \E n \in 1..Len(rec.log) :
    \/ rec.log[n].result = "error"
    \/ rec.log[n].result = "saved" /\ ~rec.log[n].inserted

\* C14: a run whose existence check or insert failed in the save stage ends
\* with the job failed and the storage error stored as its message, and
\* does not write completed.
C14_StorageFailureFailsTheJob ==
  \A r \in Runs :
    (run[r].pc = "done" /\ StorageFailed(run[r]))
      => /\ Last(run[r].writes) = "failed"
         /\ job[run[r].job_id].message # None

(***************************************************************************)
(* Properties: aggregate statistics.                                       *)
(***************************************************************************)
\* The batch a finished run hands to update_job_statistics.
StatsBatch(rec) ==
  IF rec.kind = "inngest" THEN rec.batch ELSE AllReviews(rec.results, 1)

\* The review carries no sentiment: the key is missing or its value is None.
SentimentAbsent(review) ==
  "sentiment" \notin review.keys \/ review.sentiment = None

\* C15: after update_job_statistics on the batch of a run, the three
\* sentiment counts of the job sum to at most review_count, and when the
\* function has written them they count the reviews that carry a sentiment
\* only.
C15_AbsentSentimentIsNotCounted ==
  \A r \in Runs :
    LET rec == run[r] IN
    (rec.pc = "done" /\ Last(rec.writes) = "completed")
      => LET batch == StatsBatch(rec)
             after == update_job_statistics(job, rec.job_id, batch)[rec.job_id]
             counted == after.positive_count + after.negative_count
                          + after.neutral_count
         IN /\ counted <= after.review_count
            /\ (\A n \in 1..Len(batch) : batch[n].rating # NoRating)
                 => counted = Cardinality({n \in 1..Len(batch) :
                                             ~SentimentAbsent(batch[n])})

CountLabel(batch, label) ==
  Cardinality({n \in 1..Len(batch) : batch[n].sentiment = label})

\* C16: when the only run of a job by the Inngest function has written
\* completed, the job's statistics are written: review_count is the length
\* of the final batch and the three counts are the numbers of its reviews
\* with each label.
C16_CompletedJobHasItsStatistics ==
  \A r \in Runs :
    LET rec == run[r] IN
    (rec.kind = "inngest" /\ rec.pc = "done" /\ Last(rec.writes) = "completed"
       /\ delivered[rec.job_id] = 1)
      => /\ job[rec.job_id].stats_written
         /\ job[rec.job_id].review_count = Len(rec.batch)
         /\ job[rec.job_id].positive_count = CountLabel(rec.batch, "positive")
         /\ job[rec.job_id].negative_count = CountLabel(rec.batch, "negative")
         /\ job[rec.job_id].neutral_count = CountLabel(rec.batch, "neutral")

(***************************************************************************)
(* The sentiment analyzer.                                                 *)
(***************************************************************************)
\* C17: analyze_sentiment_from_rating labels a rating of at most two stars
\* negative, three stars neutral and four stars or more positive, and it is
\* at least as confident for one star as for two and for five as for four.
C17_RatingMapsToLabel ==
  (call.op = "analyze_sentiment_from_rating" /\ call.arg # NoRating) =>
    /\ call.arg <= 20 => call.ret.sentiment = "negative"
    /\ call.arg = 30 => call.ret.sentiment = "neutral"
    /\ call.arg >= 40 => call.ret.sentiment = "positive"
    /\ call.arg = 10 =>
         call.ret.confidence >= analyze_sentiment_from_rating(20).confidence
    /\ call.arg = 50 =>
         call.ret.confidence >= analyze_sentiment_from_rating(40).confidence

\* Two stars exactly have been rated, and labelled negative.
C17_Witness ==
  /\ call.op = "analyze_sentiment_from_rating"
  /\ call.arg = 20
  /\ call.ret.sentiment = "negative"
  /\ call.ret.analysis_method = "rating"

\* C18: for every numeric rating the confidence lies in [0, 1], the chosen
\* label's score is the confidence, the other two scores are equal and not
\* negative, and the three scores sum to 1.
C18_RatingScoresAreADistribution ==
  (call.op = "analyze_sentiment_from_rating" /\ call.arg # NoRating) =>
    LET ret == call.ret
        others == Labels \ {ret.sentiment}
    IN /\ ret.confidence \in 0..1000
       /\ ret.scores[ret.sentiment] = ret.confidence
       /\ \A l, m \in others : ret.scores[l] = ret.scores[m]
       /\ \A l \in others : ret.scores[l] >= 0
       /\ ret.scores["positive"] + ret.scores["neutral"]
            + ret.scores["negative"] = 1000

\* The review has neither a text nor a rating to analyze.
Unanalyzable(review) ==
  Strip(review.text) = << >> /\ review.rating = NoRating

\* C19: a review with an empty or blank text and no rating leaves the stage
\* with no sentiment, confidence 0 and method none, and the summary counts
\* it neither as analyzed nor in a percentage.
C19_UnanalyzableReviewIsLeftAbsent ==
  /\ (call.op = "analyze_reviews_batch" /\ ~call.ret.raised) =>
       \A i \in 1..Len(call.arg) :
         Unanalyzable(call.arg[i]) =>
           /\ call.ret.out[i].sentiment = None
           /\ call.ret.out[i].sentiment_confidence = 0
           /\ call.ret.out[i].sentiment_method = "none"
  /\ call.op = "get_sentiment_summary" =>
       LET absent == {i \in 1..Len(call.arg) : Unanalyzable(call.arg[i].review)}
       IN /\ call.ret.analyzed_reviews <= Len(call.arg) - Cardinality(absent)
          /\ call.ret.positive + call.ret.negative + call.ret.neutral
               = call.ret.analyzed_reviews
          /\ call.ret.analyzed_reviews = 0 =>
               /\ call.ret.positive_percentage = 0
               /\ call.ret.negative_percentage = 0
               /\ call.ret.neutral_percentage = 0

\* C20: analyze_reviews_batch does not raise and returns one result per
\* review in order; a review whose classification fails, a null text
\* included, gets neutral, confidence 0 and an error, and every other review
\* gets the result it gets in a batch of its own.
C20_BatchIsolatesFailures ==
  call.op = "analyze_reviews_batch" =>
    /\ ~call.ret.raised
    /\ Len(call.ret.out) = Len(call.arg)
    /\ \A i \in 1..Len(call.arg) :
         /\ call.ret.out[i].review = call.arg[i]
         /\ IF i \in call.failing \/ call.arg[i].text = NullText
            THEN /\ call.ret.out[i].sentiment = "neutral"
                 /\ call.ret.out[i].sentiment_confidence = 0
                 /\ call.ret.out[i].sentiment_error # None
            ELSE call.ret.out[i]
                   = analyze_reviews_batch(<<call.arg[i]>>, call.available, {}).out[1]

(***************************************************************************)
(* The keyword analyzer.                                                   *)
(***************************************************************************)
\* C21: with the dictionary loaded, the categories returned for a review
\* text are exactly those with a keyword of the detected language that
\* occurs in the lowercased text; a category's total_weight is the sum of
\* the weights of those keywords, its confidence is that sum over their
\* number, capped at 1, and the categories come in descending total_weight.
C21_CategoriesAreThoseMatchedInText ==
  (/\ call.op = "analyze_review_keywords"
   /\ categories_cache = Dictionary
   /\ Strip(call.arg) # << >>) =>
    \E text_lower \in {Lower(Strip(call.arg))} :
      LET cats == call.ret.categories
          matched(c) ==
            found_keywords(Dictionary[c].keywords[call.ret.language], text_lower)
      IN /\ {cats[i].category_key : i \in 1..Len(cats)}
              = {Dictionary[c].category_key :
                   c \in {d \in 1..Len(Dictionary) : matched(d) # << >>}}
         /\ \A i \in 1..Len(cats), c \in 1..Len(Dictionary) :
              Dictionary[c].category_key = cats[i].category_key =>
                /\ cats[i].total_weight = SumWeights(matched(c))
                /\ cats[i].confidence
                     = Confidence(SumWeights(matched(c)), Len(matched(c)))
         /\ \A i, k \in 1..Len(cats) :
              i < k => cats[i].total_weight >= cats[k].total_weight

\* C22: _detect_language returns es, fr or en: the language with the
\* highest indicator count in the lowercased text, among equal counts es
\* before fr before en, and en when every count is zero or the text is
\* empty.
C22_LanguageWithHighestCount ==
  call.op = "_detect_language" =>
    \E counts \in {LanguageCounts(Lower(call.arg))} :
      /\ call.ret \in {"es", "fr", "en"}
      /\ IF \A l \in {"es", "fr", "en"} : counts[l] = 0
         THEN call.ret = "en"
         ELSE /\ \A l \in {"es", "fr", "en"} : counts[l] <= counts[call.ret]
              /\ counts["es"] = counts[call.ret] => call.ret = "es"
              /\ (counts["fr"] = counts[call.ret] /\ counts["es"] < counts["fr"])
                   => call.ret = "fr"

\* "de" is an indicator of Spanish and of French and of nothing else: the
\* tie went to Spanish.
C22_Witness ==
  /\ call.op = "_detect_language"
  /\ call.arg = <<"d", "e">>
  /\ call.ret = "es"

KeywordCalls == {"analyze_review_keywords", "keyword_analyze_reviews_batch"}

WorkingModel(i) ==
  /\ summarizer = "loaded" \/ call.available
  /\ call.failing[i] = "summary"

\* C23 as stated: a text of at most 150 characters gets no summary and no
\* model load or invocation, a text of 151 or more characters with a working
\* model gets has_summary true, and has_summary is true exactly when the
\* summary is present.
C23_LongTextIsSummarized ==
  call.op = "summarize_reviews_batch" =>
    \A i \in 1..Len(call.arg) :
      LET text == call.arg[i].text
          out == call.ret[i]
      IN /\ out.has_summary <=> out.summary
         /\ TextLen(text) <= min_review_length =>
              /\ ~out.has_summary
              /\ ~call.effects[i].loaded /\ ~call.effects[i].invoked
         /\ (TextLen(text) > min_review_length /\ WorkingModel(i))
              => out.has_summary

\* C23, amended: the length is that of the text without its surrounding
\* whitespace.
C23_LongStrippedTextIsSummarized ==
  call.op = "summarize_reviews_batch" =>
    \A i \in 1..Len(call.arg) :
      LET text == call.arg[i].text
          out == call.ret[i]
      IN /\ out.has_summary <=> out.summary
         /\ out.has_summary =>
              /\ TextLen(StripText(text)) > min_review_length
              /\ call.effects[i].invoked /\ call.failing[i] = "summary"
         /\ TextLen(StripText(text)) <= min_review_length =>
              /\ ~out.has_summary
              /\ ~call.effects[i].loaded /\ ~call.effects[i].invoked
         /\ (TextLen(StripText(text)) > min_review_length /\ WorkingModel(i))
              => out.has_summary

\* A text of 151 characters was summarized and one of 151 characters, 150
\* without its whitespace, was not, in one batch.
C23_Witness ==
  /\ call.op = "summarize_reviews_batch"
  /\ Len(call.arg) = 2
  /\ call.arg[1].text = SummaryText(0, min_review_length + 1, 0)
  /\ call.ret[1].has_summary
  /\ call.arg[2].text = SummaryText(0, min_review_length, 1)
  /\ call.failing[2] = "summary"
  /\ ~call.ret[2].has_summary

(***************************************************************************)
(* Properties: semantic search.                                            *)
(***************************************************************************)
\* C24: every result of search_reviews has a score of at least
\* score_threshold; the results are the hits of the index query (at most
\* `limit` of them, no threshold on the index side) that pass the
\* threshold, in the order of the index; when the embedding or the vector
\* store fails the result is the empty list.
C24_ResultsAreTheHitsPassingTheThreshold ==
  call.op = "search_reviews" =>
    LET hits == call.effects.hits
        Passes(hit) == hit.score >= call.arg.score_threshold
        kept == SelectSeq(hits, Passes)
    IN /\ \A i \in 1..Len(call.ret) : call.ret[i].score >= call.arg.score_threshold
       /\ Len(hits) <= call.arg.limit
       /\ (call.available /\ ~call.failing) =>
            /\ Len(call.ret) = Len(kept)
            /\ \A i \in 1..Len(kept) :
                 /\ call.ret[i].review_id = kept[i].review_id
                 /\ call.ret[i].score = kept[i].score
       /\ (~call.available \/ call.failing) => call.ret = << >>

\* A search whose index query returned hits on both sides of the threshold
\* and whose result kept some and dropped some.
C24_Witness ==
  /\ call.op = "search_reviews"
  /\ call.available /\ ~call.failing
  /\ \E i, k \in 1..Len(call.effects.hits) :
       /\ call.effects.hits[i].score = call.arg.score_threshold
       /\ call.effects.hits[k].score < call.arg.score_threshold
  /\ Len(call.ret) >= 1
  /\ Len(call.ret) < Len(call.effects.hits)

(***************************************************************************)
(* Properties: jobs running side by side.                                  *)
(***************************************************************************)
\* The statistics columns of a job record.
Statistics(rec) ==
  [stats_written |-> rec.stats_written, review_count |-> rec.review_count,
   positive_count |-> rec.positive_count, negative_count |-> rec.negative_count,
   neutral_count |-> rec.neutral_count, total_keywords |-> rec.total_keywords]

\* The job record a run leaves when nothing else writes it: the statuses
\* the run wrote, in order, and the statistics of its own batch when it
\* came to write them.
Alone(rec) ==
  LET fresh == [j \in Jobs |-> [NoJob EXCEPT !.status = "pending"]]
      stats == IF rec.pc = "done" /\ Last(rec.writes) = "completed"
               THEN update_job_statistics(fresh, rec.job_id, StatsBatch(rec))
               ELSE fresh
  IN update_job_status(stats, rec.job_id, Last(rec.writes), None)[rec.job_id]

\* C26: however the runs of two jobs interleave, the status of a job is the
\* one its own run wrote last and its statistics are those of its own
\* run's batch, as when the job runs alone; and a step of a run of one job
\* leaves the record of every other job as it was.
C26_JobsDoNotInterfere ==
  [][/\ \A r \in Runs :
          (run[r].job_id # 0 /\ run'[r] # run[r])
            => \A k \in Jobs : k # run[r].job_id => job'[k] = job[k]
     /\ \A r \in Runs :
          LET rec == run'[r] IN
          (rec.job_id # 0 /\ delivered'[rec.job_id] = 1 /\ rec.writes # << >>)
            => /\ job'[rec.job_id].status = Alone(rec).status
               /\ rec.pc = "done"
                    => Statistics(job'[rec.job_id]) = Statistics(Alone(rec))]_vars

\* The run of one job has completed while the run of another job is in the
\* middle of its save loop.
C26_Witness ==
  \E r, q \in Runs :
    /\ run[r].job_id # 0 /\ run[q].job_id # 0
    /\ run[r].job_id # run[q].job_id
    /\ run[r].pc = "done" /\ Last(run[r].writes) = "completed"
    /\ job[run[r].job_id].stats_written
    /\ run[q].pc \in {"check", "insert"}
    /\ run[q].writes # << >>

\* C27: in every reachable state, the interleavings of the save stages of
\* two jobs with a review of the same hash included, no two rows of the
\* reviews table carry the same review_hash.
C27_OneRowPerReviewHash ==
  \A a, b \in reviews :
    (a.review_hash # NoHash /\ a.review_hash = b.review_hash) => a = b

(***************************************************************************)
(* Properties: the batch stages.                                           *)
(***************************************************************************)
StagePcs == {"sentiment", "keywords", "summaries"}

\* What the stage a run is about to execute does with the run's batch.
Stage(pc, batch) ==
  CASE pc = "sentiment" -> sentiment_stage(batch)
    [] pc = "keywords" -> keyword_stage(batch)
    [] pc = "summaries" -> summarize_stage(batch)

\* The field a stage computes.
StageField(pc) ==
  CASE pc = "sentiment" -> "sentiment"
    [] pc = "keywords" -> "keywords"
    [] pc = "summaries" -> "has_summary"

Holds(row, review) ==
  /\ row.platform = review.platform
  /\ row.raw_data.author = review.author
  /\ row.raw_data.text = review.text
  /\ row.raw_data.rating = review.rating

\* The step of run r passes over the review the save loop stands at: the
\* loop goes on to the next review with no insert and no store error.
PassesOver(r) ==
  /\ run[r].pc = "check" /\ run[r].i <= Len(run[r].batch)
  /\ run'[r].pc = "check" /\ run'[r].i = run[r].i + 1
  /\ ~(Len(run'[r].log) > Len(run[r].log) /\ Last(run'[r].log).result = "error")

\* C29: the save loop passes over a review only when a persisted row has
\* the same platform, author, text and rating, so that reviews which differ
\* in one of them, rating-only reviews with an empty text included, are
\* all persisted.
C29_OnlyPersistedReviewsAreSkipped ==
  [][\A r \in Runs :
       PassesOver(r)
         => \E row \in reviews : Holds(row, run[r].batch[run[r].i])]_vars

\* C30: at every point of the save stage, every review the run has indexed
\* or counted in saved_count had its row persisted before, a review whose
\* insert failed or that was skipped is not indexed by the run, and
\* saved_count + skipped_count is at most the size of the batch.
C30_IndexedAndCountedAfterPersisted ==
  \A r \in Runs :
    LET rec == run[r] IN
    rec.kind = "inngest" =>
      /\ \A n \in 1..Len(rec.log) :
           /\ rec.log[n].result = "saved" => rec.log[n].inserted
           /\ rec.log[n].indexed = "ok" => rec.log[n].inserted
      /\ rec.saved_count =
           Cardinality({n \in 1..Len(rec.log) : rec.log[n].inserted})
      /\ rec.saved_count + rec.skipped_count <= Len(rec.batch)

====
